---- MODULE Spec2Model ----
(***************************************************************************)
(* A model of the packed automaton library (package automaton):            *)
(* the Automaton build API with its in-place finalisation, the Builder,    *)
(* the powerset determinizer and the composition operations.               *)
(*                                                                         *)
(* Go slices are 0-indexed; they are modelled as TLA+ sequences and read   *)
(* through At/Put, which take the Go index.  An index outside the slice    *)
(* is a Go run-time panic; operations that can hit one return the status   *)
(* "panic".                                                                *)
(***************************************************************************)
EXTENDS Integers, Sequences, FiniteSets, TLC

VARIABLES aut, numAdds, frozen, added, grouped, lastCall, in1, in2, work, out,
          pattern, regexp, fset, oset, sset, hm, shadow,
          mutex, procs, raced, bld

vars == <<aut, numAdds, frozen, added, grouped, lastCall, in1, in2, work, out,
          pattern, regexp, fset, oset, sset, hm, shadow,
          mutex, procs, raced, bld>>

buildVars == <<aut, numAdds, frozen, added, grouped, lastCall>>

opVars == <<in1, in2, work, out>>

regVars == <<pattern, regexp>>

setVars == <<fset, oset, sset>>

mapVars == <<hm, shadow>>

concVars == <<mutex, procs, raced>>

bldVars == <<bld>>

libVars == <<regVars, setVars, mapVars, concVars, bldVars>>

\* What the RegExp actions and the integer-set actions leave alone.
nonRegVars == <<setVars, mapVars, concVars, bldVars>>

nonSetVars == <<buildVars, in1, in2, work, regVars, mapVars, concVars, bldVars>>

nonMapVars == <<buildVars, in1, in2, work, regVars, setVars, concVars, bldVars>>

nonConcVars == <<buildVars, in1, in2, work, regVars, setVars, bldVars>>

nonBldVars == <<buildVars, in1, in2, work, regVars, setVars, mapVars, concVars>>

\* ------------------------------------------------------------------ bounds
MaxStates == 2

MaxTrans == 4

MaxLabel == 1

DetStates == 3

DetTrans == 3

OpTrans == 2

Op2Trans == 1

MaxWork == 1

MaxStrLen == 3

MaxPattern == 5

MaxLimit == 1

\* elements and occurrence counts of a StateSet
MaxElem == 1

MaxCount == 2

\* keys and initial capacities of a HashMap
MaxKeyPart == 1

MaxCapacity == 2

\* goroutines calling one HashMap
MaxProcs == 2

\* rows added to a Builder
MaxRows == 3

\* bytes of the terms handed to MakeBinaryInterval
MaxBytes == 2

\* code points of the CHAR nodes compiled
MaxCodePoint == 129

\* transitions of the operands of IsFiniteAutomaton
MaxEdges == 3

\* the min and max handed to repeatRange
MaxRepeat == 2

\* labels kept of the ints of GetSingletonAutomaton
MaxInts == 3

TestWorkLimit == 10000

\* ---------------------------------------------------------------- helpers
At(arr, i) == arr[i + 1]

Put(arr, i, v) == [arr EXCEPT ![i + 1] = v]

InRange(arr, i) == i >= 0 /\ i < Len(arr)

grow(s, size) ==
  IF Len(s) >= size THEN s ELSE s \o [i \in 1..(size - Len(s)) |-> 0]

\* -------------------------------------------------------------- Automaton
NewAutomaton ==
  [nextTransition |-> 0, curState |-> -1, states |-> <<>>, isAccept |-> {},
   transitions |-> <<>>, deterministic |-> TRUE]

GetNumStates(a) == Len(a.states) \div 2

\* CreateState returns len(a.states) as the new state's id.
CreateStateId(a) == Len(a.states)

CreateState(a) == [a EXCEPT !.states = a.states \o <<-1, 0>>]

SetAccept(a, state, accept) ==
  [a EXCEPT !.isAccept = IF accept THEN a.isAccept \cup {state}
                                   ELSE a.isAccept \ {state}]

IsAccept(a, state) == state \in a.isAccept

GetNumTransitionsWithState(a, state) ==
  LET count == At(a.states, 2 * state + 1)
  IN IF count = -1 THEN 0 ELSE count

growTransitions(a) ==
  IF a.nextTransition + 3 > Len(a.transitions)
  THEN [a EXCEPT !.transitions = grow(a.transitions, a.nextTransition + 3)]
  ELSE a

\* Row i of the packed array: the triple stored at 3*i, 3*i+1, 3*i+2.
Row(tr, i) == <<At(tr, 3 * i), At(tr, 3 * i + 1), At(tr, 3 * i + 2)>>

destMinMaxLess(x, y) ==
  IF x[1] < y[1] THEN TRUE ELSE IF x[1] > y[1] THEN FALSE
  ELSE IF x[2] < y[2] THEN TRUE ELSE IF x[2] > y[2] THEN FALSE
  ELSE IF x[3] < y[3] THEN TRUE ELSE FALSE

minMaxDestLess(x, y) ==
  IF x[2] < y[2] THEN TRUE ELSE IF x[2] > y[2] THEN FALSE
  ELSE IF x[3] < y[3] THEN TRUE ELSE IF x[3] > y[3] THEN FALSE
  ELSE IF x[1] < y[1] THEN TRUE ELSE FALSE

\* A Less that compares dest, min and max and leaves the source out.
builderLessNoSource(x, y) ==
  IF x[2] < y[2] THEN TRUE ELSE IF x[2] > y[2] THEN FALSE
  ELSE IF x[3] < y[3] THEN TRUE ELSE IF x[3] > y[3] THEN FALSE
  ELSE IF x[4] < y[4] THEN TRUE ELSE FALSE

\* builderSorter.Less over rows <<source, dest, min, max>>.
builderLess(x, y) ==
  IF x[1] < y[1] THEN TRUE ELSE IF x[1] > y[1] THEN FALSE
  ELSE IF x[2] < y[2] THEN TRUE ELSE IF x[2] > y[2] THEN FALSE
  ELSE IF x[3] < y[3] THEN TRUE ELSE IF x[3] > y[3] THEN FALSE
  ELSE IF x[4] < y[4] THEN TRUE ELSE FALSE

\* The sorters' Less, selected by the sorter's name.
RowLess(order, x, y) ==
  IF order = "destMinMax" THEN destMinMaxLess(x, y)
  ELSE IF order = "minMaxDest" THEN minMaxDestLess(x, y)
  ELSE builderLess(x, y)

\* sort.Sort over a sequence of rows under the strict order of a sorter: the
\* result is the ordered permutation (rows that tie under every key are
\* identical, so it is unique).
SortBy(rows, order) ==
  LET n == Len(rows)
      rank(i) == 1 + Cardinality({j \in 1..n :
                        \/ RowLess(order, rows[j], rows[i])
                        \/ (~RowLess(order, rows[i], rows[j]) /\ j < i)})
  IN [k \in 1..n |-> rows[CHOOSE i \in 1..n : rank(i) = k]]

\* Writes the sorted rows back.  The sorters' Len is to - from, and Less and
\* Swap address row i at 3*i, so sort.Sort permutes rows 0 .. to-from-1.
PutRows(tr, sorted) ==
  [k \in 1..Len(tr) |->
     IF k <= 3 * Len(sorted) THEN sorted[((k - 1) \div 3) + 1][((k - 1) % 3) + 1]
     ELSE tr[k]]

destMinMaxSorter(tr, from, to) ==
  PutRows(tr, SortBy([i \in 1..(to - from) |-> Row(tr, i - 1)], "destMinMax"))

minMaxDestSorter(tr, from, to) ==
  PutRows(tr, SortBy([i \in 1..(to - from) |-> Row(tr, i - 1)], "minMaxDest"))

PutTriple(tr, at, d, mn, mx) == Put(Put(Put(tr, at, d), at + 1, mn), at + 2, mx)

\* Writes the pending (dest, minValue, maxValue) at row upto, if there is one.
flush(r, offset) ==
  IF r.dest # -1
  THEN [r EXCEPT !.tr = PutTriple(r.tr, offset + 3 * r.upto, r.dest, r.minValue, r.maxValue),
                 !.upto = r.upto + 1]
  ELSE r

\* One iteration of the reduce loop on the transition (tDest, tMin, tMax);
\* r carries the loop's locals (tr, upto, minValue, maxValue, dest).
reduceStep(r, offset, tDest, tMin, tMax) ==
  IF r.dest = tDest
  THEN IF tMin <= r.maxValue + 1
       THEN IF tMax > r.maxValue THEN [r EXCEPT !.maxValue = tMax] ELSE r
       ELSE [flush(r, offset) EXCEPT !.minValue = tMin, !.maxValue = tMax]
  ELSE [flush(r, offset) EXCEPT !.dest = tDest, !.minValue = tMin, !.maxValue = tMax]

\* The reduce loop of finishCurrentState from iteration i on.
RECURSIVE reduceLoop(_, _, _, _)
reduceLoop(r, offset, numTransitions, i) ==
  IF i >= numTransitions THEN r
  ELSE reduceLoop(reduceStep(r, offset, At(r.tr, offset + 3 * i),
                             At(r.tr, offset + 3 * i + 1), At(r.tr, offset + 3 * i + 2)),
                  offset, numTransitions, i + 1)

\* The determinism scan: TRUE iff some stored min is <= the previous max.
RECURSIVE overlapScan(_, _, _, _, _)
overlapScan(tr, offset, upto, i, lastMax) ==
  IF i >= upto THEN FALSE
  ELSE IF At(tr, offset + 3 * i + 1) <= lastMax THEN TRUE
  ELSE overlapScan(tr, offset, upto, i + 1, At(tr, offset + 3 * i + 2))

\* finishCurrentState.  finishFrom: the first sort, the reduce loop and its
\* last flush.  finishReduced: the second sort, r holding the reduce loop's
\* locals.  finishScanned: the bookkeeping and the determinism scan, tr2 being
\* the array after the second sort and upto the number of rows kept.
finishCurrentState(a) ==
  LET finishScanned(numTransitions, offset, upto, tr2) ==
        [a EXCEPT !.nextTransition = a.nextTransition - (numTransitions - upto) * 3,
                  !.states = Put(a.states, 2 * a.curState + 1, upto),
                  !.transitions = tr2,
                  !.deterministic =
                     IF a.deterministic /\ upto > 1
                     THEN ~overlapScan(tr2, offset, upto, 1, At(tr2, offset + 2))
                     ELSE a.deterministic]
      finishReduced(numTransitions, offset, r) ==
        finishScanned(numTransitions, offset, r.upto,
                      minMaxDestSorter(r.tr, offset \div 3, (offset \div 3) + r.upto))
      finishFrom(numTransitions, offset) ==
        finishReduced(numTransitions, offset,
          flush(reduceLoop([tr |-> destMinMaxSorter(a.transitions, offset \div 3,
                                                    (offset \div 3) + numTransitions),
                            upto |-> 0, minValue |-> -1, maxValue |-> -1, dest |-> -1],
                           offset, numTransitions, 0),
                offset))
  IN finishFrom(At(a.states, 2 * a.curState + 1), At(a.states, 2 * a.curState))

\* AddTransition returns the automaton and "ok", "err" (the already-had-
\* transitions error) or "panic" (source is not a state: index out of range).
\* addGrown is the call after growTransitions; addAtNewSource what follows
\* once curState has been set to a new source; writeTransition the tail, which
\* stores the triple at nextTransition and counts it.
AddTransition(a, source, dest, min, max) ==
  LET writeTransition(w) ==
        [w EXCEPT !.transitions = PutTriple(w.transitions, w.nextTransition,
                                            dest, min, max),
                  !.nextTransition = w.nextTransition + 3,
                  !.states = Put(w.states, 2 * w.curState + 1,
                                 At(w.states, 2 * w.curState + 1) + 1)]
      addAtNewSource(m) ==
        IF ~InRange(m.states, 2 * m.curState) THEN [a |-> m, st |-> "panic"]
        ELSE IF At(m.states, 2 * m.curState) # -1 THEN [a |-> m, st |-> "err"]
        ELSE [a |-> writeTransition(
                      [m EXCEPT !.states = Put(m.states, 2 * m.curState,
                                               m.nextTransition)]),
              st |-> "ok"]
      addGrown(g) ==
        IF g.curState # source
        THEN addAtNewSource([(IF g.curState # -1 THEN finishCurrentState(g) ELSE g)
                               EXCEPT !.curState = source])
        ELSE [a |-> writeTransition(g), st |-> "ok"]
  IN addGrown(growTransitions(a))

FinishState(a) ==
  IF a.curState # -1 THEN [finishCurrentState(a) EXCEPT !.curState = -1] ELSE a

\* getTransition(state, index): the index'th stored transition of state.
getTransition(a, state, index) ==
  LET i == At(a.states, 2 * state) + 3 * index
  IN [Dest |-> At(a.transitions, i), Min |-> At(a.transitions, i + 1),
      Max |-> At(a.transitions, i + 2)]

\* InitTransition / GetNextTransition: the stored transitions of state, in order.
TransitionsOf(a, state) ==
  [t \in 1..GetNumTransitionsWithState(a, state) |-> getTransition(a, state, t - 1)]

IsDeterministic(a) == a.deterministic

\* next(state, 0, label, nil): binary search from [low, high].
RECURSIVE next(_, _, _, _, _)
next(a, state, low, high, label) ==
  IF low > high THEN -1
  ELSE
    LET mid == (low + high) \div 2
        transitionIndex == At(a.states, 2 * state) + 3 * mid
        minLabel == At(a.transitions, transitionIndex + 1)
        maxLabel == At(a.transitions, transitionIndex + 2)
    IN IF minLabel > label THEN next(a, state, low, mid - 1, label)
       ELSE IF maxLabel < label THEN next(a, state, mid + 1, high, label)
       ELSE At(a.transitions, transitionIndex)

Step(a, state, label) ==
  next(a, state, 0, At(a.states, 2 * state + 1) - 1, label)

\* ------------------------------------------------------------------- Run
\* Step on a state that is not a state of a indexes a.states out of range.
StepChecked(a, state, label) ==
  IF InRange(a.states, 2 * state + 1) THEN Step(a, state, label) ELSE -2

\* The loop of Run from position i on: "accept", "reject", or "panic" when a
\* Step indexes out of range.
RECURSIVE runFrom(_, _, _, _)
runFrom(a, s, i, state) ==
  IF i > Len(s) THEN (IF IsAccept(a, state) THEN "accept" ELSE "reject")
  ELSE IF StepChecked(a, state, s[i]) = -2 THEN "panic"
  ELSE IF StepChecked(a, state, s[i]) = -1 THEN "reject"
  ELSE runFrom(a, s, i + 1, StepChecked(a, state, s[i]))

Run(a, s) == runFrom(a, s, 1, 0)

\* ---------------------------------------------------------------- Builder
\* Builder.transitions holds (source, dest, min, max) in groups of four; the
\* model keeps each group as one row <<source, dest, min, max>>.
NewBuilder == [nextState |-> 0, isAccept |-> {}, transitions |-> <<>>]

BuilderCreateState(b) == [b EXCEPT !.nextState = b.nextState + 1]

BuilderSetAccept(b, state, accept) ==
  [b EXCEPT !.isAccept = IF accept THEN b.isAccept \cup {state}
                                   ELSE b.isAccept \ {state}]

BuilderAddTransition(b, source, dest, min, max) ==
  [b EXCEPT !.transitions = Append(b.transitions, <<source, dest, min, max>>)]

\* Builder.sort(0, numTransitions): builderSorter over all rows.
BuilderSort(b) == [b EXCEPT !.transitions = SortBy(b.transitions, "builder")]

\* The transition loop of Builder.Finish: AddTransition's error is dropped.
RECURSIVE finishAdd(_, _, _)
finishAdd(r, rows, i) ==
  IF i > Len(rows) \/ r.st = "panic" THEN r
  ELSE finishAdd(AddTransition(r.a, rows[i][1], rows[i][2], rows[i][3], rows[i][4]),
                 rows, i + 1)

\* The states loop of Builder.Finish: numStates states, accept bits copied.
finishStates(b) ==
  [NewAutomaton EXCEPT !.states = [i \in 1..(2 * b.nextState) |-> IF i % 2 = 1 THEN -1 ELSE 0],
                       !.isAccept = {s \in b.isAccept : s < b.nextState}]

\* Builder.Finish returns [a, st]: st is "ok", or "panic" when a row's source
\* is not a state.
BuilderFinish(b) ==
  LET finishDone(r) ==
        IF r.st = "panic" THEN r ELSE [a |-> FinishState(r.a), st |-> "ok"]
  IN finishDone(finishAdd([a |-> finishStates(b), st |-> "ok"],
                          BuilderSort(b).transitions, 1))

\* How many calls of a.AddTransition in the transition loop of Builder.Finish
\* return the already-had-transitions error (which Finish does not look at).
RECURSIVE finishErrors(_, _, _)
finishErrors(r, rows, i) ==
  IF i > Len(rows) \/ r.st = "panic" THEN 0
  ELSE (IF AddTransition(r.a, rows[i][1], rows[i][2], rows[i][3], rows[i][4]).st = "err"
        THEN 1 ELSE 0)
       + finishErrors(AddTransition(r.a, rows[i][1], rows[i][2], rows[i][3], rows[i][4]),
                      rows, i + 1)

\* ------------------------------------------------------------------ hashes
\* uint32 values are pairs <<hi, lo>> of 16-bit halves; uint64 hash codes are
\* pairs <<hi, lo>> with lo a 16-bit half and hi the rest.
Half == 65536

RECURSIVE xorBits(_, _, _)
xorBits(x, y, n) ==
  IF n = 0 THEN 0
  ELSE ((x + y) % 2) + 2 * xorBits(x \div 2, y \div 2, n - 1)

xor32(k, m) == <<xorBits(k[1], m[1], 16), xorBits(k[2], m[2], 16)>>

\* uint32 multiplication, wrapping at 2^32; mulLo and mulHi are the low and
\* the high 16 bits of the product of two 16-bit halves.
mul32(k, c) ==
  LET mulLo(x, y) ==
        ((x % 256) * (y % 256)
           + 256 * (((x \div 256) * (y % 256) + (x % 256) * (y \div 256)) % 256)) % Half
      mulHi(x, y) ==
        (x \div 256) * (y \div 256)
          + (((x % 256) * (y % 256)
                + 256 * ((x \div 256) * (y % 256) + (x % 256) * (y \div 256))) \div Half)
  IN <<(mulHi(k[2], c[2]) + mulLo(k[1], c[2]) + mulLo(k[2], c[1])) % Half,
       mulLo(k[2], c[2])>>

\* mix32(v) for 0 <= v < 2^31, as <<hi, lo>>:
\*   k = (k ^ (k >> 16)) * 0x85ebca6b; k = (k ^ (k >> 13)) * 0xc2b2ae35;
\*   return k ^ (k >> 16)
mix32(v) ==
  LET shr16(k) == <<0, k[1]>>
      shr13(k) == <<k[1] \div 8192, (k[1] % 8192) * 8 + (k[2] \div 8192)>>
      mixA(k) == mul32(xor32(k, shr16(k)), <<34283, 51819>>)
      mixB(k) == mul32(xor32(k, shr13(k)), <<49842, 44597>>)
      mixC(k) == xor32(k, shr16(k))
  IN mixC(mixB(mixA(<<v \div Half, v % Half>>)))

mix(key) == mix32(key)

\* uint64 addition of hash codes (no wrap for the few terms summed here).
addHash(h, g) == <<h[1] + g[1] + ((h[2] + g[2]) \div Half), (h[2] + g[2]) % Half>>

RECURSIVE sumMix(_)
sumMix(keys) ==
  IF keys = {} THEN <<0, 0>>
  ELSE addHash(mix(CHOOSE k \in keys : \A j \in keys : k <= j),
               sumMix(keys \ {CHOOSE k \in keys : \A j \in keys : k <= j}))

\* The elements of a set of integers in increasing order.
RECURSIVE SortedSeq(_)
SortedSeq(S) ==
  IF S = {} THEN <<>>
  ELSE <<CHOOSE k \in S : \A j \in S : k <= j>>
         \o SortedSeq(S \ {CHOOSE k \in S : \A j \in S : k <= j})

\* --------------------------------------------------- FrozenIntSet, StateSet
NewFrozenIntSet(values, hashCode, state) ==
  [values |-> values, state |-> state, hashCode |-> hashCode]

NewStateSet == [inner |-> <<>>, hashUpdated |-> FALSE, hashCode |-> <<0, 0>>]

\* StateSet.inner maps a state to its count; absent keys read 0.
innerGet(s, state) == IF state \in DOMAIN s.inner THEN s.inner[state] ELSE 0

keyChanged(s) == [s EXCEPT !.hashUpdated = FALSE, !.hashCode = <<0, 0>>]

innerPut(s, state, n) ==
  [s EXCEPT !.inner = [k \in (DOMAIN s.inner) \cup {state} |->
                         IF k = state THEN n ELSE s.inner[k]]]

innerDelete(s, state) ==
  [s EXCEPT !.inner = [k \in (DOMAIN s.inner) \ {state} |-> s.inner[k]]]

Incr(s, state) ==
  IF innerGet(s, state) = 0 THEN keyChanged(innerPut(s, state, 1))
  ELSE innerPut(s, state, innerGet(s, state) + 1)

Decr(s, state) ==
  IF state \notin DOMAIN s.inner THEN s
  ELSE IF s.inner[state] = 1 THEN keyChanged(innerDelete(s, state))
  ELSE innerPut(s, state, s.inner[state] - 1)

Size(s) == Cardinality(DOMAIN s.inner)

\* StateSet.Hash(): the set with its hash code computed and cached.
Hashed(s) ==
  IF s.hashUpdated THEN s
  ELSE [s EXCEPT !.hashCode = addHash(<<0, Cardinality(DOMAIN s.inner)>>,
                                      sumMix(DOMAIN s.inner)),
                 !.hashUpdated = TRUE]

GetArray(s) == SortedSeq(DOMAIN s.inner)

\* Freeze takes the cached hashCode field as it is.
Freeze(s, state) == NewFrozenIntSet(GetArray(s), s.hashCode, state)

\* Equals of FrozenIntSet and of StateSet: the hash codes are equal.
IntSetEquals(h, g) == h = g

\* An interface value holds an IntSet when its dynamic type has Hash,
\* Equals, GetArray and Size; the nil interface and a map key do not.
IsIntSet(other) == other.type \in {"*FrozenIntSet", "*StateSet", "MockIntSet"}

\* other.Hash() through the interface: MockIntSet answers 0, a nil
\* *FrozenIntSet or *StateSet is dereferenced, a StateSet caches its hash.
interfaceHash(other) ==
  CASE other.type = "MockIntSet" -> [st |-> "ok", h |-> <<0, 0>>]
    [] other.type # "MockIntSet" /\ Len(other.ptr) = 0 ->
         [st |-> "panic", h |-> <<0, 0>>]
    [] other.type = "*FrozenIntSet" /\ Len(other.ptr) > 0 ->
         [st |-> "ok", h |-> other.ptr[1].hashCode]
    [] OTHER -> [st |-> "ok", h |-> Hashed(other.ptr[1]).hashCode]

\* The argument after the call: Hash() of a StateSet stores the hash code.
afterHash(other) ==
  IF other.type = "*StateSet" /\ Len(other.ptr) > 0
  THEN [other EXCEPT !.ptr = <<Hashed(other.ptr[1])>>]
  ELSE other

\* (f *FrozenIntSet) Equals(other Hashable): "true", "false" or "panic".
FrozenIntSetEquals(f, other) ==
  LET typedNil == /\ other.type \in {"*FrozenIntSet", "*StateSet"}
                  /\ Len(other.ptr) = 0
      pointer == other.type \in {"*FrozenIntSet", "*StateSet"}
  IN IF Len(f) = 0 /\ typedNil THEN "true"
     ELSE IF Len(f) = 0 /\ ~pointer THEN "false"
     ELSE IF ~IsIntSet(other) THEN "false"
     ELSE IF interfaceHash(other).st = "panic" \/ Len(f) = 0 THEN "panic"
     ELSE IF interfaceHash(other).h = f[1].hashCode THEN "true"
     ELSE "false"

\* HashMap keyed by int sets: an entry is <<key hash, value>>; Set replaces
\* the value of an entry whose key Equals the new key.
MapSet(m, h, v) == {e \in m : ~IntSetEquals(e[1], h)} \cup {<<h, v>>}

MapHas(m, h) == \E e \in m : IntSetEquals(e[1], h)

MapGet(m, h) == (CHOOSE e \in m : IntSetEquals(e[1], h))[2]

\* ------------------------------------------------------------------ HashMap
\* TestKey, the key type of the map tests: Hash is part1 + len(part2) and
\* Equals compares both fields.
TestKeyHash(k) == k.part1 + Len(k.part2)

TestKeyEquals(k, o) == k.part1 = o.part1 /\ k.part2 = o.part2

\* newOptionsHashMap: the capacity is rounded up to a power of two.
RECURSIVE realCap(_, _)
realCap(cap, capacity) ==
  IF cap < capacity THEN realCap(2 * cap, capacity) ELSE cap

\* buckets[i + 1] is the chain of Go bucket i, head first.
NewHashMap(capacity) ==
  [buckets |-> [i \in 1..realCap(1, capacity) |-> <<>>],
   size |-> 0,
   mask |-> realCap(1, capacity) - 1]

\* hash & mask, with mask = 2^k - 1, as a position in buckets.
bucketIndex(hash, mask) == (hash % (mask + 1)) + 1

\* The position in chain of the first entry whose key Equals key, 0 if none.
RECURSIVE chainFind(_, _, _)
chainFind(chain, key, i) ==
  IF i > Len(chain) THEN 0
  ELSE IF TestKeyEquals(chain[i].key, key) THEN i
  ELSE chainFind(chain, key, i + 1)

\* A new entry whose next is the old head of its bucket.
headInsert(buckets, index, e) ==
  [buckets EXCEPT ![index] = <<e>> \o buckets[index]]

RECURSIVE rehashChain(_, _, _, _)
rehashChain(newBuckets, chain, i, newMask) ==
  IF i > Len(chain) THEN newBuckets
  ELSE rehashChain(headInsert(newBuckets,
                              bucketIndex(TestKeyHash(chain[i].key), newMask),
                              chain[i]),
                   chain, i + 1, newMask)

RECURSIVE rehashBuckets(_, _, _, _)
rehashBuckets(newBuckets, buckets, b, newMask) ==
  IF b > Len(buckets) THEN newBuckets
  ELSE rehashBuckets(rehashChain(newBuckets, buckets[b], 1, newMask),
                     buckets, b + 1, newMask)

\* A resize that rehashes only the head of each chain.
resizeHeadsOnly(m) ==
  [m EXCEPT !.buckets = rehashBuckets([i \in 1..(2 * Len(m.buckets)) |-> <<>>],
                                      [b \in 1..Len(m.buckets) |->
                                         IF Len(m.buckets[b]) = 0 THEN <<>>
                                         ELSE <<m.buckets[b][1]>>],
                                      1, 2 * Len(m.buckets) - 1),
            !.mask = 2 * Len(m.buckets) - 1]

\* resize: twice the buckets, every entry rehashed into them.
resize(m) ==
  [m EXCEPT !.buckets = rehashBuckets([i \in 1..(2 * Len(m.buckets)) |-> <<>>],
                                      m.buckets, 1, 2 * Len(m.buckets) - 1),
            !.mask = 2 * Len(m.buckets) - 1]

\* float64(size) / float64(len(buckets)) > loadFactory, for the default
\* loadFactory 0.75 = 3/4.
overLoad(size, n) == 4 * size > 3 * n

\* Set up to its resize: the value of an entry with an equal key is
\* replaced, or a new entry becomes the head of the bucket.
stored(m, key, value) ==
  LET index == bucketIndex(TestKeyHash(key), m.mask)
      at == chainFind(m.buckets[index], key, 1)
  IN IF at > 0 THEN [m EXCEPT !.buckets[index][at].value = value]
     ELSE [m EXCEPT !.buckets = headInsert(m.buckets, index,
                                           [key |-> key, value |-> value]),
                    !.size = m.size + 1]

HashMapSet(m, key, value) ==
  IF /\ stored(m, key, value).size > m.size
     /\ overLoad(stored(m, key, value).size, Len(m.buckets))
  THEN resize(stored(m, key, value))
  ELSE stored(m, key, value)

\* Get returns the value and true, or the zero value and false.
HashMapGet(m, key) ==
  LET index == bucketIndex(TestKeyHash(key), m.mask)
      at == chainFind(m.buckets[index], key, 1)
  IN IF at > 0 THEN [value |-> m.buckets[index][at].value, ok |-> TRUE]
     ELSE [value |-> 0, ok |-> FALSE]

HashMapDelete(m, key) ==
  LET index == bucketIndex(TestKeyHash(key), m.mask)
      at == chainFind(m.buckets[index], key, 1)
      chain == m.buckets[index]
  IN IF at > 0
     THEN [m EXCEPT !.buckets[index] =
                      SubSeq(chain, 1, at - 1) \o SubSeq(chain, at + 1, Len(chain)),
                    !.size = m.size - 1]
     ELSE m

HashMapSize(m) == m.size

\* -------------------------------------------------------------- determinize
\* The effort check with > in place of >=.
tooComplexStrict(effortSpent, effortLimit) == effortSpent > effortLimit

\* The effort check made after each pop of the worklist.
tooComplex(effortSpent, effortLimit) == effortSpent >= effortLimit

\* The transitions of the states in values, in the order determinize adds
\* them to points; "panic" when a value is not a state of a.
RECURSIVE collate(_, _, _, _)
collate(a, values, i, acc) ==
  IF i > Len(values) THEN [st |-> "ok", ts |-> acc]
  ELSE IF ~InRange(a.states, 2 * values[i] + 1) THEN [st |-> "panic", ts |-> acc]
  ELSE collate(a, values, i + 1, acc \o TransitionsOf(a, values[i]))

\* PointTransitionSet after Sort: the distinct points t.Min and 1 + t.Max in
\* increasing order; starts and ends of a point, in the order added.
sortedPoints(ts) ==
  SortedSeq({ts[i].Min : i \in 1..Len(ts)} \cup {1 + ts[i].Max : i \in 1..Len(ts)})

startsAt(ts, point) == SelectSeq(ts, LAMBDA t : t.Min = point)

endsAt(ts, point) == SelectSeq(ts, LAMBDA t : 1 + t.Max = point)

\* d carries determinize's locals: b, worklist, newstate, statesSet,
\* effortSpent, lastPoint, accCount, and the outcome st.
newDeterminize(a) ==
  [b |-> BuilderSetAccept(BuilderCreateState(NewBuilder), 0, IsAccept(a, 0)),
   worklist |-> <<NewFrozenIntSet(<<0>>, addHash(mix(0), <<0, 1>>), 0)>>,
   newstate |-> {<<addHash(mix(0), <<0, 1>>), 0>>},
   statesSet |-> NewStateSet,
   effortSpent |-> 0, lastPoint |-> -1, accCount |-> 0, st |-> "ok"]

\* The first part of the sweep at a point: the transition to the current set.
\* makeNewState creates state q for a statesSet that newstate does not hold;
\* lookupState looks up the statesSet, whose hash has been computed;
\* addToState adds the transition from r to the state found.
sweepEmit(d, r, point) ==
  LET makeNewState(e, q) ==
        [e EXCEPT !.b = BuilderSetAccept(BuilderCreateState(e.b), q, e.accCount > 0),
                  !.worklist = Append(e.worklist, Freeze(e.statesSet, q)),
                  !.newstate = MapSet(e.newstate, Freeze(e.statesSet, q).hashCode, q)]
      lookupState(e) ==
        IF MapHas(e.newstate, e.statesSet.hashCode) THEN e
        ELSE makeNewState(e, e.b.nextState)
      addToState(e) ==
        [e EXCEPT !.b = BuilderAddTransition(e.b, r,
                                             MapGet(e.newstate, e.statesSet.hashCode),
                                             e.lastPoint, point - 1)]
  IN IF Size(d.statesSet) > 0
     THEN addToState(lookupState([d EXCEPT !.statesSet = Hashed(d.statesSet)]))
     ELSE d

\* Transitions that end on the point.
RECURSIVE sweepEnds(_, _, _, _)
sweepEnds(a, d, ends, j) ==
  IF j > Len(ends) THEN d
  ELSE sweepEnds(a,
         [d EXCEPT !.statesSet = Decr(d.statesSet, ends[j].Dest),
                   !.accCount = IF IsAccept(a, ends[j].Dest) THEN d.accCount - 1
                                ELSE d.accCount],
         ends, j + 1)

\* Transitions that start on the point.
RECURSIVE sweepStarts(_, _, _, _)
sweepStarts(a, d, starts, j) ==
  IF j > Len(starts) THEN d
  ELSE sweepStarts(a,
         [d EXCEPT !.statesSet = Incr(d.statesSet, starts[j].Dest),
                   !.accCount = IF IsAccept(a, starts[j].Dest) THEN d.accCount + 1
                                ELSE d.accCount],
         starts, j + 1)

\* The loop over the sorted points: at each point the transition to the
\* current set, then the transitions that end and those that start there.
RECURSIVE sweepLoop(_, _, _, _, _, _)
sweepLoop(a, d, r, ts, points, i) ==
  LET sweepPoint(point) ==
        [sweepStarts(a, sweepEnds(a, sweepEmit(d, r, point), endsAt(ts, point), 1),
                     startsAt(ts, point), 1)
           EXCEPT !.lastPoint = point]
  IN IF i > Len(points) THEN d
     ELSE sweepLoop(a, sweepPoint(points[i]), r, ts, points, i + 1)

\* The worklist loop.  popped is the loop body for the set s taken off the
\* worklist, e being the locals after the pop; sweep is the body after the
\* effort check, c.ts being the collated transitions of s.
RECURSIVE detLoop(_, _, _)
detLoop(a, d, effortLimit) ==
  LET sweep(e, s, c) ==
        IF c.st = "panic" THEN [e EXCEPT !.st = "panic"]
        ELSE IF Len(c.ts) = 0 THEN e
        ELSE sweepLoop(a, [e EXCEPT !.lastPoint = -1, !.accCount = 0], s.state, c.ts,
                       sortedPoints(c.ts), 1)
      popped(e, s) ==
        IF tooComplex(e.effortSpent, effortLimit) THEN [e EXCEPT !.st = "err"]
        ELSE detLoop(a, sweep(e, s, collate(a, s.values, 1, <<>>)), effortLimit)
  IN IF Len(d.worklist) = 0 \/ d.st # "ok" THEN d
     ELSE popped([d EXCEPT !.worklist = Tail(d.worklist),
                           !.effortSpent = d.effortSpent + Len(Head(d.worklist).values)],
                 Head(d.worklist))

\* A result [a, st] with the effort counter added.
withEffort(r, effortSpent) == [a |-> r.a, st |-> r.st, effortSpent |-> effortSpent]

\* determinize returns [a, st, effortSpent]: st is "ok" with the result in a,
\* "err" for the too-complex error, or "panic".
determinize(a, workLimit) ==
  LET detResult(d) ==
        IF d.st # "ok" THEN [a |-> a, st |-> d.st, effortSpent |-> d.effortSpent]
        ELSE withEffort(BuilderFinish(d.b), d.effortSpent)
  IN IF IsDeterministic(a) THEN [a |-> a, st |-> "ok", effortSpent |-> 0]
     ELSE IF GetNumStates(a) <= 1 THEN [a |-> a, st |-> "ok", effortSpent |-> 0]
     ELSE detResult(detLoop(a, newDeterminize(a), workLimit * 10))

\* ----------------------------------------------------------------- Minimize
Minimize(a, determinizeWorkLimit) ==
  IF GetNumStates(a) = 0
     \/ (IsAccept(a, 0) = FALSE /\ GetNumTransitionsWithState(a, 0) = 0)
  THEN [a |-> NewAutomaton, st |-> "ok", effortSpent |-> 0]
  ELSE determinize(a, determinizeWorkLimit)

\* -------------------------------------------------------------- live states
\* The destinations among ts that are not in live, in order, without repeats.
RECURSIVE newDests(_, _, _, _)
newDests(ts, i, live, acc) ==
  IF i > Len(ts) THEN acc
  ELSE IF ts[i].Dest \in live THEN newDests(ts, i + 1, live, acc)
  ELSE newDests(ts, i + 1, live \cup {ts[i].Dest}, Append(acc, ts[i].Dest))

\* The worklist loop shared by getLiveStatesFromInitial and
\* getLiveStatesToAccept; InitTransition on a popped state that is not a state
\* of a indexes a.states out of range.
RECURSIVE liveSearch(_, _, _)
liveSearch(a, live, workList) ==
  LET liveVisit(rest, found) ==
        liveSearch(a, live \cup {found[i] : i \in 1..Len(found)}, rest \o found)
  IN IF Len(workList) = 0 THEN [live |-> live, st |-> "ok"]
     ELSE IF ~InRange(a.states, 2 * Head(workList) + 1)
     THEN [live |-> live, st |-> "panic"]
     ELSE liveVisit(Tail(workList),
                    newDests(TransitionsOf(a, Head(workList)), 1, live, <<>>))

getLiveStatesFromInitial(a) ==
  IF GetNumStates(a) = 0 THEN [live |-> {}, st |-> "ok"]
  ELSE liveSearch(a, {0}, <<0>>)

\* The builder of getLiveStatesToAccept: every transition reversed.
RECURSIVE reverseInto(_, _, _, _)
reverseInto(b, s, ts, i) ==
  IF i > Len(ts) THEN b
  ELSE reverseInto(BuilderAddTransition(b, ts[i].Dest, s, ts[i].Min, ts[i].Max),
                   s, ts, i + 1)

RECURSIVE reverseAll(_, _, _)
reverseAll(a, b, s) ==
  IF s >= GetNumStates(a) THEN b
  ELSE reverseAll(a, reverseInto(b, s, TransitionsOf(a, s), 1), s + 1)

\* The accept bits the NextSet loop visits from bit s on: it stops once the
\* bit it found is not below numStates.
RECURSIVE acceptScan(_, _, _, _)
acceptScan(bits, numStates, s, acc) ==
  IF s < numStates /\ \E x \in bits : x >= s
  THEN acceptScan(bits, numStates,
                  (CHOOSE x \in bits : x >= s /\ \A y \in bits : y >= s => x <= y) + 1,
                  Append(acc, CHOOSE x \in bits : x >= s /\ \A y \in bits : y >= s => x <= y))
  ELSE acc

\* r is what builder.Finish() returned (a2), start the accept states the
\* NextSet loop put on the worklist.
getLiveStatesToAccept(a) ==
  LET toAcceptSearch(r, start) ==
        IF r.st = "panic" THEN [live |-> {}, st |-> "panic"]
        ELSE liveSearch(r.a, {start[i] : i \in 1..Len(start)}, start)
  IN toAcceptSearch(
       BuilderFinish(reverseAll(a, [NewBuilder EXCEPT !.nextState = GetNumStates(a)], 0)),
       acceptScan(a.isAccept, GetNumStates(a), 0, <<>>))

\* live.Union(...) returns a new set, which getLiveStates drops: what it
\* returns is the set of getLiveStatesFromInitial.
getLiveStates(a) ==
  LET liveUnionDropped(live, other) ==
        IF live.st = "panic" \/ other.st = "panic" THEN [live |-> {}, st |-> "panic"]
        ELSE live
  IN liveUnionDropped(getLiveStatesFromInitial(a), getLiveStatesToAccept(a))

\* --------------------------------------------------------- removeDeadStates
\* The first loop: a state per live state i, with mp[i] what CreateState
\* returned.  r carries result and mp (a function on the live states seen).
RECURSIVE deadCreate(_, _, _, _)
deadCreate(a, liveSet, i, r) ==
  IF i >= GetNumStates(a) THEN r
  ELSE IF i \in liveSet
  THEN deadCreate(a, liveSet, i + 1,
         [result |-> SetAccept(CreateState(r.result), CreateStateId(r.result),
                               IsAccept(a, i)),
          mp |-> [k \in (DOMAIN r.mp) \cup {i} |->
                    IF k = i THEN CreateStateId(r.result) ELSE r.mp[k]]])
  ELSE deadCreate(a, liveSet, i + 1, r)

\* mp is make([]int, numStates): entries of states that are not live stay 0.
mpAt(a, mp, i) == IF i \in DOMAIN mp THEN mp[i] ELSE 0

\* The transitions of live state i from the j'th on; r is [a, st].
RECURSIVE deadCopy(_, _, _, _, _, _, _)
deadCopy(a, liveSet, mp, i, ts, j, r) ==
  IF j > Len(ts) \/ r.st # "ok" THEN r
  ELSE IF ts[j].Dest \in liveSet
  THEN IF ts[j].Dest >= GetNumStates(a) THEN [a |-> r.a, st |-> "panic"]
       ELSE deadCopy(a, liveSet, mp, i, ts, j + 1,
              AddTransition(r.a, mpAt(a, mp, i), mpAt(a, mp, ts[j].Dest),
                            ts[j].Min, ts[j].Max))
  ELSE deadCopy(a, liveSet, mp, i, ts, j + 1, r)

RECURSIVE deadStates(_, _, _, _, _)
deadStates(a, liveSet, mp, i, r) ==
  IF i >= GetNumStates(a) \/ r.st # "ok" THEN r
  ELSE IF i \in liveSet
  THEN deadStates(a, liveSet, mp, i + 1,
                  deadCopy(a, liveSet, mp, i, TransitionsOf(a, i), 1, r))
  ELSE deadStates(a, liveSet, mp, i + 1, r)

finishResult(r) ==
  IF r.st = "ok" THEN [a |-> FinishState(r.a), st |-> "ok"] ELSE r

\* removeDeadStates returns [a, st]: st is "ok", "err" or "panic".  c is the
\* result and mp after the first loop.
removeDeadStates(a) ==
  LET deadBuild(liveSet, c) ==
        finishResult(deadStates(a, liveSet, c.mp, 0, [a |-> c.result, st |-> "ok"]))
      deadFrom(live) ==
        IF live.st = "panic" THEN [a |-> a, st |-> "panic"]
        ELSE deadBuild(live.live,
                       deadCreate(a, live.live, 0, [result |-> NewAutomaton, mp |-> <<>>]))
  IN deadFrom(getLiveStates(a))

\* --------------------------------------------------------- Copy, AddEpsilon
MaxRune == 1114111

\* Copy, in its three parts.  copyStates: every even entry appended to
\* a.states gets len(a.transitions) added, the -1 of a state without
\* transitions included.  copyAccept: the accept loop, over the bits
\* acceptScan visits.  copyTransitions: grow, copy at a.nextTransition, fix up
\* dest.  stateOffset is a.GetNumStates() on entry.
Copy(a, other) ==
  LET copyStates(c) ==
        [c EXCEPT !.states = c.states \o
            [i \in 1..Len(other.states) |->
               IF i % 2 = 1 THEN other.states[i] + Len(c.transitions)
               ELSE other.states[i]]]
      copyAccept(c, stateOffset, bits) ==
        [c EXCEPT !.isAccept =
                    c.isAccept \cup {stateOffset + bits[i] : i \in 1..Len(bits)}]
      copyTransitions(c, stateOffset) ==
        [c EXCEPT !.transitions =
                    [k \in 1..Len(grow(c.transitions,
                                       c.nextTransition + other.nextTransition)) |->
                       IF k > c.nextTransition
                          /\ k <= c.nextTransition + other.nextTransition
                       THEN IF (k - c.nextTransition) % 3 = 1
                            THEN other.transitions[k - c.nextTransition] + stateOffset
                            ELSE other.transitions[k - c.nextTransition]
                       ELSE c.transitions[k]],
                  !.nextTransition = c.nextTransition + other.nextTransition,
                  !.deterministic = IF other.deterministic = FALSE THEN FALSE
                                    ELSE c.deterministic]
  IN copyTransitions(
       copyAccept(copyStates(a), GetNumStates(a),
                  acceptScan(other.isAccept, GetNumStates(other), 0, <<>>)),
       GetNumStates(a))

\* The loop of AddEpsilon: t.TransitionUpto walks a.transitions from upto
\* while AddTransition writes to the same array; r is [a, st], and
\* AddTransition's error is dropped.
RECURSIVE epsilonLoop(_, _, _, _, _)
epsilonLoop(r, source, upto, i, count) ==
  IF i >= count \/ r.st = "panic" THEN r
  ELSE IF ~(InRange(r.a.transitions, upto) /\ InRange(r.a.transitions, upto + 2))
  THEN [a |-> r.a, st |-> "panic"]
  ELSE epsilonLoop(AddTransition(r.a, source, At(r.a.transitions, upto),
                                 At(r.a.transitions, upto + 1),
                                 At(r.a.transitions, upto + 2)),
                   source, upto + 3, i + 1, count)

\* AddEpsilon returns [a, st]: st is "ok" or "panic".
AddEpsilon(a, source, dest) ==
  LET epsilonAccept(r) ==
        IF r.st = "panic" THEN r
        ELSE [a |-> (IF IsAccept(r.a, dest) THEN SetAccept(r.a, source, TRUE) ELSE r.a),
              st |-> "ok"]
  IN IF ~InRange(a.states, 2 * dest + 1) THEN [a |-> a, st |-> "panic"]
     ELSE epsilonAccept(
            epsilonLoop([a |-> a, st |-> "ok"], source, At(a.states, 2 * dest), 0,
                        GetNumTransitionsWithState(a, dest)))

\* -------------------------------------------------------------------- union
RECURSIVE unionCopy(_, _, _)
unionCopy(result, automatons, i) ==
  IF i > Len(automatons) THEN result
  ELSE unionCopy(Copy(result, automatons[i]), automatons, i + 1)

RECURSIVE unionEpsilon(_, _, _, _)
unionEpsilon(r, automatons, i, stateOffset) ==
  IF i > Len(automatons) \/ r.st = "panic" THEN r
  ELSE IF GetNumStates(automatons[i]) = 0
  THEN unionEpsilon(r, automatons, i + 1, stateOffset)
  ELSE unionEpsilon(AddEpsilon(r.a, 0, stateOffset), automatons, i + 1,
                    stateOffset + GetNumStates(automatons[i]))

\* union returns [a, st]: st is "ok", "err" or "panic".
union(automatons) ==
  LET unionFinish(r) ==
        IF r.st = "panic" THEN r ELSE removeDeadStates(FinishState(r.a))
  IN unionFinish(unionEpsilon([a |-> unionCopy(CreateState(NewAutomaton), automatons, 1),
                               st |-> "ok"],
                              automatons, 1, 1))

\* -------------------------------------------------------------- concatenate
\* The first pass: a state per state of every operand; stops at an operand
\* without states (r.st = "empty").
RECURSIVE concatCreate(_, _, _)
concatCreate(result, automatons, i) ==
  IF i > Len(automatons) THEN [a |-> result, st |-> "ok"]
  ELSE IF GetNumStates(automatons[i]) = 0 THEN [a |-> FinishState(result), st |-> "empty"]
  ELSE concatCreate(
         [result EXCEPT !.states = result.states \o
            [k \in 1..Len(automatons[i].states) |-> IF k % 2 = 1 THEN -1 ELSE 0]],
         automatons, i + 1)

\* AddTransition(source, offset + t.Dest, t.Min, t.Max) for ts from the j'th on.
RECURSIVE concatAdd(_, _, _, _, _)
concatAdd(r, source, offset, ts, j) ==
  IF j > Len(ts) \/ r.st # "ok" THEN r
  ELSE concatAdd(AddTransition(r.a, source, offset + ts[j].Dest, ts[j].Min, ts[j].Max),
                 source, offset, ts, j + 1)

\* The chaining loop for an accept state: followA is automatons[upto], or nil
\* when upto is past the last operand.
RECURSIVE concatFollow(_, _, _, _, _, _)
concatFollow(r, automatons, source, numStates, followOffset, upto) ==
  LET concatChained(c) ==
        IF c.st # "ok" THEN c
        ELSE IF IsAccept(automatons[upto], 0)
        THEN concatFollow(c, automatons, source, numStates,
                          followOffset + GetNumStates(automatons[upto]), upto + 1)
        ELSE c
  IN IF r.st # "ok" THEN r
     ELSE IF upto > Len(automatons)
     THEN [a |-> SetAccept(r.a, source, TRUE), st |-> "ok"]
     ELSE concatChained(concatAdd(r, source, followOffset + numStates,
                                  TransitionsOf(automatons[upto], 0), 1))

\* The loop over the states s of operand i: the transitions of s, then the
\* chaining if s is an accept state.
RECURSIVE concatStates(_, _, _, _, _)
concatStates(r, automatons, i, s, stateOffset) ==
  LET concatAccept(c) ==
        IF c.st = "ok" /\ IsAccept(automatons[i], s)
        THEN concatFollow(c, automatons, stateOffset + s, GetNumStates(automatons[i]),
                          stateOffset, i + 1)
        ELSE c
  IN IF s >= GetNumStates(automatons[i]) \/ r.st # "ok" THEN r
     ELSE concatStates(
            concatAccept(concatAdd(r, stateOffset + s, stateOffset,
                                   TransitionsOf(automatons[i], s), 1)),
            automatons, i, s + 1, stateOffset)

\* The second pass, over the operands.
RECURSIVE concatPass(_, _, _, _)
concatPass(r, automatons, i, stateOffset) ==
  IF i > Len(automatons) \/ r.st # "ok" THEN r
  ELSE concatPass(concatStates(r, automatons, i, 0, stateOffset), automatons, i + 1,
                  stateOffset + GetNumStates(automatons[i]))

\* concatenate returns [a, st]: st is "ok", "err" or "panic".
concatenate(automatons) ==
  LET concatFinish(r) ==
        IF r.st # "ok" THEN r
        ELSE [a |-> FinishState(IF GetNumStates(r.a) = 0 THEN CreateState(r.a)
                                ELSE r.a),
              st |-> "ok"]
      concatSecond(r) ==
        IF r.st = "empty" THEN [a |-> r.a, st |-> "ok"]
        ELSE concatFinish(concatPass(r, automatons, 1, 0))
  IN concatSecond(concatCreate(NewAutomaton, automatons, 1))

\* --------------------------------------------------------- totalize, complement
\* The transitions of state i from the j'th on, then the gap above the last;
\* totalGap adds the transition to deadState that fills the gap below t, if
\* there is one.
RECURSIVE totalTrans(_, _, _, _, _, _)
totalTrans(r, i, deadState, maxi, ts, j) ==
  LET totalGap(c, t) ==
        IF c.st = "ok" /\ t.Min > maxi
        THEN AddTransition(c.a, i, deadState, maxi, t.Min - 1)
        ELSE c
  IN IF r.st # "ok" THEN r
     ELSE IF j > Len(ts)
     THEN (IF maxi <= MaxRune THEN AddTransition(r.a, i, deadState, maxi, MaxRune)
           ELSE r)
     ELSE totalTrans(
            totalGap(AddTransition(r.a, i, ts[j].Dest, ts[j].Min, ts[j].Max), ts[j]),
            i, deadState, IF ts[j].Max + 1 > maxi THEN ts[j].Max + 1 ELSE maxi,
            ts, j + 1)

RECURSIVE totalStates(_, _, _, _)
totalStates(a, r, deadState, i) ==
  IF i >= GetNumStates(a) \/ r.st # "ok" THEN r
  ELSE totalStates(a, totalTrans(r, i, deadState, 0, TransitionsOf(a, i), 1),
                   deadState, i + 1)

\* The first loop of totalize: the states of a with their accept bits.
totalCreate(a) ==
  [NewAutomaton EXCEPT !.states = [k \in 1..Len(a.states) |-> IF k % 2 = 1 THEN -1 ELSE 0],
                       !.isAccept = {i \in a.isAccept : i < GetNumStates(a)}]

\* totalize returns [a, st]: st is "ok", "err" or "panic".  deadState is what
\* result.CreateState() returned.
totalize(a) ==
  LET totalDead(result, deadState) ==
        finishResult(totalStates(a, AddTransition(CreateState(result), deadState,
                                                  deadState, 0, MaxRune),
                                 deadState, 0))
  IN totalDead(totalCreate(a), CreateStateId(totalCreate(a)))

\* complement returns [a, st]: st is "ok", "err" (too complex) or "panic".
\* flipAccept is the accept flip over the states p < numStates.
complement(a, determinizeWorkLimit) ==
  LET flipAccept(t) ==
        [t EXCEPT !.isAccept = {p \in t.isAccept : p >= GetNumStates(t)}
                                 \cup {p \in 0..(GetNumStates(t) - 1) :
                                         p \notin t.isAccept}]
      complementTotal(r) ==
        IF r.st # "ok" THEN r ELSE removeDeadStates(flipAccept(r.a))
      complementDet(d) ==
        IF d.st # "ok" THEN [a |-> d.a, st |-> d.st]
        ELSE complementTotal(totalize(d.a))
  IN complementDet(determinize(a, determinizeWorkLimit))

\* ------------------------------------------------------------- intersection
\* getSortedTransitions: the stored transitions of every state, as they are.
getSortedTransitions(a) == [s \in 1..GetNumStates(a) |-> TransitionsOf(a, s - 1)]

\* for b2 < len(t2) && t2[b2].Max < min { b2++ }
RECURSIVE interSkip(_, _, _)
interSkip(t2, b2, min) ==
  IF b2 < Len(t2) /\ t2[b2 + 1].Max < min THEN interSkip(t2, b2 + 1, min) ELSE b2

\* for ; n2 < len(t2) && max >= t2[n2].Min; n2++ { }
RECURSIVE interScan(_, _, _)
interScan(t2, n2, max) ==
  IF n2 < Len(t2) /\ max >= t2[n2 + 1].Min THEN interScan(t2, n2 + 1, max) ELSE n2

\* The statement after the scan: t2[n2] is read whatever n2 is.  x carries
\* c, worklist, estates and the outcome st.  interLookup: when estates.Get(q)
\* fails, q gets a state from CreateState and is recorded.  interAdd: the
\* transition from p.s to the state of the pair, on the common range.
interPair(x, p, ta, t2, n2) ==
  LET interLookup(y, s1, s2) ==
        IF \E e \in y.estates : e.s1 = s1 /\ e.s2 = s2 THEN y
        ELSE [y EXCEPT !.c = CreateState(y.c),
                       !.worklist = Append(y.worklist,
                                      [s |-> CreateStateId(y.c), s1 |-> s1, s2 |-> s2]),
                       !.estates = y.estates \cup
                                     {[s |-> CreateStateId(y.c), s1 |-> s1, s2 |-> s2]}]
      interAdded(y, res) == [y EXCEPT !.c = res.a, !.st = res.st]
      interAdd(y, tb) ==
        interAdded(y,
          AddTransition(y.c, p.s,
                        (CHOOSE e \in y.estates : e.s1 = ta.Dest /\ e.s2 = tb.Dest).s,
                        IF ta.Min > tb.Min THEN ta.Min ELSE tb.Min,
                        IF ta.Max < tb.Max THEN ta.Max ELSE tb.Max))
  IN IF n2 >= Len(t2) THEN [x EXCEPT !.st = "panic"]
     ELSE IF t2[n2 + 1].Max >= ta.Min
     THEN interAdd(interLookup(x, ta.Dest, t2[n2 + 1].Dest), t2[n2 + 1])
     ELSE x

\* The loop over the transitions t1[n1] of p.s1; c2 is b2 after the skip.
RECURSIVE interTrans(_, _, _, _, _, _)
interTrans(x, p, t1, t2, n1, b2) ==
  LET interNext(c2) ==
        interTrans(interPair(x, p, t1[n1 + 1], t2, interScan(t2, c2, t1[n1 + 1].Max)),
                   p, t1, t2, n1 + 1, c2)
  IN IF n1 >= Len(t1) \/ x.st # "ok" THEN x
     ELSE interNext(interSkip(t2, b2, t1[n1 + 1].Min))

\* The worklist loop; interPop is its body for the pair p taken off.
RECURSIVE interLoop(_, _, _)
interLoop(a1, a2, x) ==
  LET interPop(y, p) ==
        IF p.s1 >= GetNumStates(a1) \/ p.s2 >= GetNumStates(a2)
        THEN [y EXCEPT !.st = "panic"]
        ELSE interLoop(a1, a2,
               interTrans([y EXCEPT !.c = SetAccept(y.c, p.s,
                                            IsAccept(a1, p.s1) /\ IsAccept(a2, p.s2))],
                          p, getSortedTransitions(a1)[p.s1 + 1],
                          getSortedTransitions(a2)[p.s2 + 1], 0, 0))
  IN IF Len(x.worklist) = 0 \/ x.st # "ok" THEN x
     ELSE interPop([x EXCEPT !.worklist = Tail(x.worklist)], Head(x.worklist))

\* intersection of two distinct automata returns [a, st]: st is "ok", "err"
\* or "panic".
intersection(a1, a2) ==
  LET interFinish(x) ==
        IF x.st # "ok" THEN [a |-> x.c, st |-> x.st]
        ELSE removeDeadStates(FinishState(x.c))
  IN IF GetNumStates(a1) = 0 THEN [a |-> a1, st |-> "ok"]
     ELSE IF GetNumStates(a2) = 0 THEN [a |-> a2, st |-> "ok"]
     ELSE interFinish(interLoop(a1, a2,
            [c |-> CreateState(NewAutomaton),
             worklist |-> <<[s |-> 0, s1 |-> 0, s2 |-> 0]>>,
             estates |-> {[s |-> 0, s1 |-> 0, s2 |-> 0]},
             st |-> "ok"]))

\* ----------------------------------------------------------------- Automata
\* MakeAnyString returns [a, st].
MakeAnyString ==
  finishResult(AddTransition(SetAccept(CreateState(NewAutomaton),
                                       CreateStateId(NewAutomaton), TRUE),
                             CreateStateId(NewAutomaton), CreateStateId(NewAutomaton),
                             0, MaxRune))

\* The loop of MakeString from the i'th code point on; lastState and state are
\* what CreateState returned.
RECURSIVE makeStringFrom(_, _, _, _)
makeStringFrom(r, s, i, lastState) ==
  IF r.st # "ok" THEN r
  ELSE IF i > Len(s)
  THEN [a |-> FinishState(SetAccept(r.a, lastState, TRUE)), st |-> "ok"]
  ELSE makeStringFrom(AddTransition(CreateState(r.a), lastState, CreateStateId(r.a),
                                    s[i], s[i]),
                      s, i + 1, CreateStateId(r.a))

\* MakeString returns [a, st]; a string is its sequence of code points.
MakeString(s) ==
  makeStringFrom([a |-> CreateState(NewAutomaton), st |-> "ok"], s, 1,
                 CreateStateId(NewAutomaton))

MakeEmpty == FinishState(NewAutomaton)

MakeEmptyString == SetAccept(CreateState(NewAutomaton), 0, TRUE)

\* MakeCharRange returns [a, st]; s1 and s2 are what CreateState returned.
MakeCharRange(min, max) ==
  LET charRangeFrom(a1, s1, s2) ==
        finishResult(AddTransition(SetAccept(CreateState(a1), s2, TRUE), s1, s2, min, max))
  IN IF min > max THEN [a |-> MakeEmpty, st |-> "ok"]
     ELSE charRangeFrom(CreateState(NewAutomaton), CreateStateId(NewAutomaton),
                        CreateStateId(CreateState(NewAutomaton)))

\* ------------------------------------------------------------ isEmpty, reverse
\* The worklist loop of isEmpty: "false" once an accept state is popped.
RECURSIVE emptySearch(_, _, _)
emptySearch(a, seen, workList) ==
  LET emptyVisit(rest, found) ==
        emptySearch(a, seen \cup {found[i] : i \in 1..Len(found)}, rest \o found)
  IN IF Len(workList) = 0 THEN "true"
     ELSE IF IsAccept(a, Head(workList)) THEN "false"
     ELSE IF ~InRange(a.states, 2 * Head(workList) + 1) THEN "panic"
     ELSE emptyVisit(Tail(workList),
                     newDests(TransitionsOf(a, Head(workList)), 1, seen, <<>>))

\* isEmpty returns "true" or "false" ("panic": an index out of range).
isEmpty(a) ==
  IF GetNumStates(a) = 0 THEN "true"
  ELSE IF ~IsAccept(a, 0) /\ GetNumTransitionsWithState(a, 0) = 0 THEN "true"
  ELSE IF IsAccept(a, 0) THEN "false"
  ELSE emptySearch(a, {0}, <<0>>)

\* The transition loop of reverseStates, from the i'th transition of state s
\* on: builder.AddTransition(t.Dest+1, s+1, t.Min, t.Max).
RECURSIVE reverseEdges(_, _, _, _)
reverseEdges(a, b, s, i) ==
  IF s >= GetNumStates(a) THEN b
  ELSE IF i >= GetNumTransitionsWithState(a, s) THEN reverseEdges(a, b, s + 1, 0)
  ELSE reverseEdges(a,
         BuilderAddTransition(b, getTransition(a, s, i).Dest + 1, s + 1,
                              getTransition(a, s, i).Min, getTransition(a, s, i).Max),
         s, i + 1)

\* result.AddEpsilon(0, s+1) for the accept states acc of the input.
RECURSIVE reverseEpsilons(_, _, _)
reverseEpsilons(r, acc, i) ==
  IF i > Len(acc) \/ r.st # "ok" THEN r
  ELSE reverseEpsilons(AddEpsilon(r.a, 0, acc[i] + 1), acc, i + 1)

\* reverseStates(a, nil) returns [a, st]: st is "ok" or "panic".
reverseStates(a) ==
  LET reverseFrom(empty) ==
        IF empty = "panic" THEN [a |-> a, st |-> "panic"]
        ELSE IF empty = "true" THEN [a |-> NewAutomaton, st |-> "ok"]
        ELSE finishResult(
               reverseEpsilons(
                 BuilderFinish(
                   reverseEdges(a, BuilderSetAccept([NewBuilder EXCEPT
                                                       !.nextState = 1 + GetNumStates(a)],
                                                    1, TRUE),
                                0, 0)),
                 acceptScan(a.isAccept, GetNumStates(a), 0, <<>>), 1))
  IN reverseFrom(isEmpty(a))

reverse(a) == reverseStates(a)

\* ------------------------------------------- getCommonPrefix, GetSingleton
\* hasDeadStatesFromInitial returns "true" or "false" ("panic" as above).
hasDeadStatesFromInitial(a) ==
  LET deadDifference(reachableFromInitial, reachableFromAccept) ==
        IF reachableFromInitial.st = "panic" \/ reachableFromAccept.st = "panic"
        THEN "panic"
        ELSE IF reachableFromInitial.live \ reachableFromAccept.live # {} THEN "true"
        ELSE "false"
  IN deadDifference(getLiveStatesFromInitial(a), getLiveStatesToAccept(a))

\* One pass of getCommonPrefix over the states cur (in increasing order) from
\* the s'th on, at transition j of that state (j = -1: the state has not been
\* looked at yet).  p is [label, next, out]: out is "break" after break OUT.
RECURSIVE prefixPass(_, _, _, _, _)
prefixPass(a, cur, s, j, p) ==
  LET prefixStep(t, label) ==
        IF t.Min # t.Max \/ t.Min # label THEN [p EXCEPT !.label = label, !.out = "break"]
        ELSE prefixPass(a, cur, s, j + 1,
                        [p EXCEPT !.label = label, !.next = p.next \cup {t.Dest}])
      prefixLabel(t) == prefixStep(t, IF p.label = -1 THEN t.Min ELSE p.label)
  IN IF s > Len(cur) THEN p
     ELSE IF j = -1
     THEN IF IsAccept(a, cur[s]) THEN [p EXCEPT !.out = "break"]
          ELSE IF ~InRange(a.states, 2 * cur[s] + 1) THEN [p EXCEPT !.out = "panic"]
          ELSE prefixPass(a, cur, s, 0, p)
     ELSE IF j >= GetNumTransitionsWithState(a, cur[s])
     THEN prefixPass(a, cur, s + 1, -1, p)
     ELSE prefixLabel(getTransition(a, cur[s], j))

\* The loop OUT from the pass over current on; seen holds the values current
\* has had: a pass that ends without break on a value it has had before
\* repeats for ever ("hang"), writing a rune each time.
RECURSIVE prefixLoop(_, _, _, _)
prefixLoop(a, current, seen, prefix) ==
  LET prefixAfter(p) ==
        IF p.out = "break" THEN [prefix |-> prefix, st |-> "ok"]
        ELSE IF p.out = "panic" THEN [prefix |-> prefix, st |-> "panic"]
        ELSE IF p.next \in seen \cup {current} THEN [prefix |-> prefix, st |-> "hang"]
        ELSE prefixLoop(a, p.next, seen \cup {current}, Append(prefix, p.label))
  IN prefixAfter(prefixPass(a, SortedSeq(current), 1, -1,
                            [label |-> -1, next |-> {}, out |-> "go"]))

\* getCommonPrefix returns [prefix, st]: st is "ok", "err" (the input has dead
\* states), "panic" or "hang"; prefix is the sequence of runes written.
getCommonPrefix(a) ==
  LET prefixFrom(dead, empty) ==
        IF dead = "panic" THEN [prefix |-> <<>>, st |-> "panic"]
        ELSE IF dead = "true" THEN [prefix |-> <<>>, st |-> "err"]
        ELSE IF empty = "panic" THEN [prefix |-> <<>>, st |-> "panic"]
        ELSE IF empty = "true" THEN [prefix |-> <<>>, st |-> "ok"]
        ELSE prefixLoop(a, {0}, {}, <<>>)
  IN prefixFrom(hasDeadStatesFromInitial(a), isEmpty(a))

\* The loop of GetSingletonAutomaton at state s; it goes on to t.Dest only if
\* t.Dest is in visited already, so visited stops growing and a walk of more
\* steps than there are states is at a state for the second time: it never
\* ends ("hang").
RECURSIVE singletonWalk(_, _, _, _)
singletonWalk(a, s, visited, ints) ==
  LET singletonStep(t) ==
        IF t.Min = t.Max /\ t.Dest \in visited \cup {s}
        THEN IF Len(ints) > GetNumStates(a)
             THEN [ints |-> ints, singleton |-> FALSE, st |-> "hang"]
             ELSE singletonWalk(a, t.Dest, visited \cup {s}, Append(ints, t.Min))
        ELSE [ints |-> <<>>, singleton |-> FALSE, st |-> "ok"]
  IN IF ~IsAccept(a, s)
     THEN IF ~InRange(a.states, 2 * s + 1)
          THEN [ints |-> <<>>, singleton |-> FALSE, st |-> "panic"]
          ELSE IF GetNumTransitionsWithState(a, s) = 1
          THEN singletonStep(getTransition(a, s, 0))
          ELSE [ints |-> <<>>, singleton |-> FALSE, st |-> "ok"]
     ELSE IF InRange(a.states, 2 * s + 1) /\ GetNumTransitionsWithState(a, s) = 0
     THEN [ints |-> ints, singleton |-> TRUE, st |-> "ok"]
     ELSE IF ~InRange(a.states, 2 * s + 1)
     THEN [ints |-> <<>>, singleton |-> FALSE, st |-> "panic"]
     ELSE [ints |-> <<>>, singleton |-> FALSE, st |-> "ok"]

\* GetSingletonAutomaton returns [ints, singleton, st]: singleton is FALSE
\* for the nil result, st is "ok", "err" (not deterministic), "panic" or "hang".
GetSingletonAutomaton(a) ==
  IF ~IsDeterministic(a) THEN [ints |-> <<>>, singleton |-> FALSE, st |-> "err"]
  ELSE singletonWalk(a, 0, {}, <<>>)

\* ------------------------------------------------ Builder.Copy, repeat
\* CopyStates: a state per state of other, with its accept bit.
BuilderCopyStates(b, other) ==
  [b EXCEPT !.nextState = b.nextState + GetNumStates(other),
            !.isAccept =
               (b.isAccept \ {b.nextState + s : s \in 0..(GetNumStates(other) - 1)})
                 \cup {b.nextState + s :
                         s \in {q \in 0..(GetNumStates(other) - 1) : IsAccept(other, q)}}]

\* The transition loop of Builder.Copy from the i'th transition of state s on.
RECURSIVE builderCopyFrom(_, _, _, _, _)
builderCopyFrom(b, other, offset, s, i) ==
  IF s >= GetNumStates(other) THEN b
  ELSE IF i >= GetNumTransitionsWithState(other, s)
  THEN builderCopyFrom(b, other, offset, s + 1, 0)
  ELSE builderCopyFrom(
         BuilderAddTransition(b, offset + s, offset + getTransition(other, s, i).Dest,
                              getTransition(other, s, i).Min,
                              getTransition(other, s, i).Max),
         other, offset, s, i + 1)

BuilderCopy(b, other) ==
  builderCopyFrom(BuilderCopyStates(b, other), other, b.nextState, 0, 0)

\* Builder.AddEpsilon from row upto on; len(r.transitions) is read anew on
\* every round, so the rows the loop appends are visited as well.  After the
\* loop source is made accepting if dest is.
RECURSIVE BuilderAddEpsilon(_, _, _, _)
BuilderAddEpsilon(b, source, dest, upto) ==
  IF upto > Len(b.transitions)
  THEN (IF dest \in b.isAccept THEN BuilderSetAccept(b, source, TRUE) ELSE b)
  ELSE IF b.transitions[upto][1] = dest
  THEN BuilderAddEpsilon(
         BuilderAddTransition(b, source, b.transitions[upto][2],
                              b.transitions[upto][3], b.transitions[upto][4]),
         source, dest, upto + 1)
  ELSE BuilderAddEpsilon(b, source, dest, upto + 1)

\* builder.AddTransition(source, t.Dest+1, t.Min, t.Max) for the transitions
\* of state 0 of a from the i'th on.
RECURSIVE repeatInto(_, _, _, _)
repeatInto(b, a, source, i) ==
  IF i >= GetNumTransitionsWithState(a, 0) THEN b
  ELSE repeatInto(BuilderAddTransition(b, source, getTransition(a, 0, i).Dest + 1,
                                       getTransition(a, 0, i).Min,
                                       getTransition(a, 0, i).Max),
                  a, source, i + 1)

\* The loop of repeat over the states of a from s on.
RECURSIVE repeatAccepts(_, _, _)
repeatAccepts(b, a, s) ==
  IF s >= GetNumStates(a) THEN b
  ELSE repeatAccepts(IF IsAccept(a, s) THEN repeatInto(b, a, s + 1, 0) ELSE b, a, s + 1)

\* repeat returns [a, st].
repeat(a) ==
  IF GetNumStates(a) = 0 THEN [a |-> a, st |-> "ok"]
  ELSE BuilderFinish(
         repeatAccepts(
           repeatInto(BuilderCopyStates(BuilderSetAccept(BuilderCreateState(NewBuilder),
                                                         0, TRUE), a),
                      a, 0, 0),
           a, 0))

repeatCount(a, count) ==
  LET countThen(ra) ==
        IF ra.st # "ok" THEN ra
        ELSE concatenate([i \in 1..(count + 1) |-> IF i <= count THEN a ELSE ra.a])
  IN IF count = 0 THEN repeat(a) ELSE countThen(repeat(a))

\* toSet: offset + every accept bit the NextSet loop visits.
toSet(a, offset) ==
  {offset + x : x \in {acceptScan(a.isAccept, GetNumStates(a), 0, <<>>)[i] :
                         i \in 1..Len(acceptScan(a.isAccept, GetNumStates(a), 0, <<>>))}}

\* builder.AddEpsilon(s, numStates) for the states in the sequence acc.
RECURSIVE rangeEpsilons(_, _, _, _)
rangeEpsilons(b, acc, numStates, k) ==
  IF k > Len(acc) THEN b
  ELSE rangeEpsilons(BuilderAddEpsilon(b, acc[k], numStates, 1), acc, numStates, k + 1)

\* The loop of repeatRange from round i on.
RECURSIVE rangeLoop(_, _, _, _, _)
rangeLoop(b, a, prevAcceptStates, i, max) ==
  IF i >= max THEN b
  ELSE rangeLoop(rangeEpsilons(BuilderCopy(b, a), SortedSeq(prevAcceptStates),
                               b.nextState, 1),
                 a, toSet(a, b.nextState), i + 1, max)

\* repeatRange returns [a, st].
repeatRange(a, min, max) ==
  LET rangeFrom(b) ==
        IF b.st # "ok" THEN b
        ELSE BuilderFinish(rangeLoop(BuilderCopy(NewBuilder, b.a), a, toSet(b.a, 0),
                                     min, max))
  IN IF min > max THEN [a |-> MakeEmpty, st |-> "ok"]
     ELSE rangeFrom(IF min = 0 THEN [a |-> MakeEmptyString, st |-> "ok"]
                    ELSE IF min = 1 THEN [a |-> Copy(NewAutomaton, a), st |-> "ok"]
                    ELSE concatenate([i \in 1..min |-> a]))

\* ------------------------------------------------------------------ RegExp
\* A pattern is the sequence of its runes (originalString); the parser state
\* r is [originalString, pos].  The parse functions return [e, r, err]: the
\* expression, the state after it, and whether they return an error.  The
\* patterns of the model hold none of | & ~ [ . # @ " ( < \ ? *, so the
\* productions these runes start are left out.
Digits == 48..57

more(r) == r.pos < Len(r.originalString)

\* peek(s), with s as the set of the runes of the string.
peek(r, s) == more(r) /\ At(r.originalString, r.pos) \in s

\* match(c): r.pos after the call.
match(r, c) == IF peek(r, {c}) THEN r.pos + 1 ELSE r.pos

\* strconv.Atoi of the digits s (no sign, short enough for an int).
RECURSIVE Atoi(_, _, _)
Atoi(s, i, acc) == IF i > Len(s) THEN acc ELSE Atoi(s, i + 1, 10 * acc + (s[i] - 48))

makeRepeatMin(exp, min) == [kind |-> "REPEAT_MIN", exp1 |-> exp, min |-> min]

makeRepeatRange(exp, min, max) ==
  [kind |-> "REPEAT_MINMAX", exp1 |-> exp, min |-> min, max |-> max]

makeChar(c) == [kind |-> "CHAR", c |-> c]

makeString(s) == [kind |-> "STRING", s |-> s]

makeConcatenation(exp1, exp2) ==
  LET leaf(e) == e.kind \in {"CHAR", "STRING"}
      runes(e) == IF e.kind = "STRING" THEN e.s ELSE <<e.c>>
      makeStringRegExp(e1, e2) == makeString(runes(e1) \o runes(e2))
      node(rexp1, rexp2) == [kind |-> "CONCATENATION", exp1 |-> rexp1, exp2 |-> rexp2]
  IN IF leaf(exp1) /\ leaf(exp2) THEN makeStringRegExp(exp1, exp2)
     ELSE IF exp1.kind = "CONCATENATION" /\ leaf(exp1.exp2) /\ leaf(exp2)
     THEN node(exp1.exp1, makeStringRegExp(exp1.exp2, exp2))
     ELSE IF leaf(exp1) /\ exp2.kind = "CONCATENATION" /\ leaf(exp2.exp1)
     THEN node(makeStringRegExp(exp1, exp2.exp1), exp2.exp2)
     ELSE node(exp1, exp2)

\* parseCharExp through parseSimpleExp (reached from parseComplExp and
\* parseCharClassExp): next() fails at the end of the pattern.
parseSimpleExp(r) ==
  IF ~more(r) THEN [e |-> makeChar(0), r |-> r, err |-> TRUE]
  ELSE [e |-> makeChar(At(r.originalString, r.pos)),
        r |-> [r EXCEPT !.pos = r.pos + 1], err |-> FALSE]

\* The digit loop: r.next() while peek("0123456789").
RECURSIVE skipDigits(_)
skipDigits(r) == IF peek(r, Digits) THEN skipDigits([r EXCEPT !.pos = r.pos + 1]) ELSE r

\* The loop of parseRepeatExp on the expression and state in x.  After
\* '{' n the expression is replaced only inside the branch of match(',').
RECURSIVE repeatLoop(_)
repeatLoop(x) ==
  LET number(from, to) == Atoi(SubSeq(x.r.originalString, from + 1, to), 1, 0)
      failed(r) == [e |-> x.e, r |-> r, err |-> TRUE]
      closed(n, m, rm) ==
        IF match(rm, 125) = rm.pos THEN failed(rm)
        ELSE repeatLoop([e |-> IF m = -1 THEN makeRepeatMin(x.e, n)
                               ELSE makeRepeatRange(x.e, n, m),
                         r |-> [rm EXCEPT !.pos = rm.pos + 1], err |-> FALSE])
      comma(n, start, rm) ==
        closed(n, IF start # rm.pos THEN number(start, rm.pos) ELSE n, rm)
      braces(start, rn) ==
        IF start = rn.pos THEN failed(rn)
        ELSE IF match(rn, 44) # rn.pos
        THEN comma(number(start, rn.pos), rn.pos + 1,
                   skipDigits([rn EXCEPT !.pos = rn.pos + 1]))
        ELSE repeatLoop([e |-> x.e, r |-> rn, err |-> FALSE])
  IN IF x.err \/ ~peek(x.r, {43, 123}) THEN x
     ELSE IF match(x.r, 43) # x.r.pos
     THEN repeatLoop([e |-> makeRepeatMin(x.e, 1),
                      r |-> [x.r EXCEPT !.pos = x.r.pos + 1], err |-> FALSE])
     ELSE braces(x.r.pos + 1, skipDigits([x.r EXCEPT !.pos = x.r.pos + 1]))

parseRepeatExp(r) == repeatLoop(parseSimpleExp(r))

RECURSIVE parseConcatExp(_)
parseConcatExp(r) ==
  LET joined(e, y) ==
        IF y.err THEN y ELSE [e |-> makeConcatenation(e, y.e), r |-> y.r, err |-> FALSE]
      concatRest(x) ==
        IF x.err \/ ~more(x.r) THEN x ELSE joined(x.e, parseConcatExp(x.r))
  IN concatRest(parseRepeatExp(r))

\* parseUnionExp, through parseInterExp.
parseUnionExp(r) == parseConcatExp(r)

\* NewRegExp(s) returns [e, st]: st is "ok" or "err".
NewRegExp(s) ==
  LET parsed(x) ==
        IF x.err THEN [e |-> x.e, st |-> "err"]
        ELSE IF x.r.pos < Len(s) THEN [e |-> x.e, st |-> "err"]
        ELSE [e |-> x.e, st |-> "ok"]
  IN IF Len(s) = 0 THEN [e |-> makeString(<<>>), st |-> "ok"]
     ELSE parsed(parseUnionExp([originalString |-> s, pos |-> 0]))

MakeChar(c) == MakeCharRange(c, c)

\* toAutomatonInternal returns [a, st]: st is "ok", "err" or "panic".
\* findLeaves appends to list, which is [as, st].
RECURSIVE toAutomatonInternal(_, _)
RECURSIVE findLeaves(_, _, _, _)
findLeaves(exp, kind, list, determinizeWorkLimit) ==
  LET leafAdded(r) ==
        IF r.st # "ok" THEN [as |-> list.as, st |-> r.st]
        ELSE [as |-> Append(list.as, r.a), st |-> "ok"]
  IN IF list.st # "ok" THEN list
     ELSE IF exp.kind = kind
     THEN findLeaves(exp.exp2, kind,
                     findLeaves(exp.exp1, kind, list, determinizeWorkLimit),
                     determinizeWorkLimit)
     ELSE leafAdded(toAutomatonInternal(exp, determinizeWorkLimit))

toAutomatonInternal(e, determinizeWorkLimit) ==
  LET plain(r) == [a |-> r.a, st |-> r.st]
      minimized(r) ==
        IF r.st # "ok" THEN plain(r) ELSE plain(Minimize(r.a, determinizeWorkLimit))
      concatenated(list) ==
        IF list.st # "ok" THEN [a |-> NewAutomaton, st |-> list.st]
        ELSE minimized(concatenate(list.as))
      repeatMin(r) ==
        IF r.st # "ok" THEN r
        ELSE IF (GetNumStates(r.a) - 1) * e.min > determinizeWorkLimit
        THEN [a |-> r.a, st |-> "err"]
        ELSE minimized(repeatCount(r.a, e.min))
      repeatMinMax(r) ==
        IF r.st # "ok" THEN r
        ELSE IF (GetNumStates(r.a) - 1) * e.max > determinizeWorkLimit
        THEN [a |-> r.a, st |-> "err"]
        ELSE plain(repeatRange(r.a, e.min, e.max))
  IN CASE e.kind = "CONCATENATION" ->
            concatenated(
              findLeaves(e.exp2, "CONCATENATION",
                         findLeaves(e.exp1, "CONCATENATION",
                                    [as |-> <<>>, st |-> "ok"], determinizeWorkLimit),
                         determinizeWorkLimit))
       [] e.kind = "REPEAT_MIN" ->
            repeatMin(toAutomatonInternal(e.exp1, determinizeWorkLimit))
       [] e.kind = "REPEAT_MINMAX" ->
            repeatMinMax(toAutomatonInternal(e.exp1, determinizeWorkLimit))
       [] e.kind = "CHAR" -> plain(MakeChar(e.c))
       [] e.kind = "STRING" -> plain(MakeString(e.s))

\* toAutomaton(determinizeWorkLimit): no named automata and no provider.
toAutomaton(e, determinizeWorkLimit) == toAutomatonInternal(e, determinizeWorkLimit)

\* ------------------------------------------------------ binary intervals
\* bytes.Compare from byte i on: -1, 0 or 1.
RECURSIVE bytesCompare(_, _, _)
bytesCompare(x, y, i) ==
  IF i > Len(x) /\ i > Len(y) THEN 0
  ELSE IF i > Len(x) THEN -1
  ELSE IF i > Len(y) THEN 1
  ELSE IF x[i] < y[i] THEN -1
  ELSE IF x[i] > y[i] THEN 1
  ELSE bytesCompare(x, y, i + 1)

suffixIsZeros(bs, size) == \A i \in (size + 1)..Len(bs) : bs[i] = 0

\* MakeAnyBinary returns [a, st]; s is what CreateState returned.
MakeAnyBinary ==
  finishResult(AddTransition(SetAccept(CreateState(NewAutomaton),
                                       CreateStateId(NewAutomaton), TRUE),
                             CreateStateId(NewAutomaton), CreateStateId(NewAutomaton),
                             0, 255))

\* MakeNonEmptyBinary returns [a, st]; the second AddTransition is called when
\* the first returned no error.
MakeNonEmptyBinary ==
  LET nonEmptyFrom(a2, s1, s2) ==
        IF AddTransition(a2, s1, s2, 0, 255).st # "ok"
        THEN AddTransition(a2, s1, s2, 0, 255)
        ELSE finishResult(AddTransition(AddTransition(a2, s1, s2, 0, 255).a,
                                        s2, s2, 0, 255))
  IN nonEmptyFrom(SetAccept(CreateState(CreateState(NewAutomaton)),
                            CreateStateId(CreateState(NewAutomaton)), TRUE),
                  CreateStateId(NewAutomaton),
                  CreateStateId(CreateState(NewAutomaton)))

\* The loop of MakeBinary from byte i on.
RECURSIVE makeBinaryFrom(_, _, _, _)
makeBinaryFrom(r, term, i, lastState) ==
  IF r.st # "ok" THEN r
  ELSE IF i > Len(term)
  THEN [a |-> FinishState(SetAccept(r.a, lastState, TRUE)), st |-> "ok"]
  ELSE makeBinaryFrom(AddTransition(CreateState(r.a), lastState, CreateStateId(r.a),
                                    term[i], term[i]),
                      term, i + 1, CreateStateId(r.a))

MakeBinary(term) ==
  makeBinaryFrom([a |-> CreateState(NewAutomaton), st |-> "ok"], term, 1,
                 CreateStateId(NewAutomaton))

\* The finite case of MakeBinaryInterval: the loop over the bytes of min from
\* Go index i on, and the loop that appends zeros up to maxLength with every
\* new state accepting.  m is [a, st, lastState].
RECURSIVE finiteMin(_, _, _)
finiteMin(m, min, i) ==
  IF m.st # "ok" \/ i >= Len(min) THEN m
  ELSE finiteMin([a |-> AddTransition(CreateState(m.a), m.lastState,
                                      CreateStateId(m.a), min[i + 1], min[i + 1]).a,
                  st |-> AddTransition(CreateState(m.a), m.lastState,
                                       CreateStateId(m.a), min[i + 1], min[i + 1]).st,
                  lastState |-> CreateStateId(m.a)],
                 min, i + 1)

RECURSIVE finiteZeros(_, _, _)
finiteZeros(m, maxLength, i) ==
  IF m.st # "ok" \/ i >= maxLength THEN m
  ELSE finiteZeros(
         [a |-> SetAccept(AddTransition(CreateState(m.a), m.lastState,
                                        CreateStateId(m.a), 0, 0).a,
                          CreateStateId(m.a), TRUE),
          st |-> AddTransition(CreateState(m.a), m.lastState,
                               CreateStateId(m.a), 0, 0).st,
          lastState |-> CreateStateId(m.a)],
         maxLength, i + 1)

\* One AddTransition of the general case on the loop state m, which carries
\* the automaton, the status and the locals of MakeBinaryInterval.
intervalAdd(m, source, dest, min, max) ==
  IF m.st # "ok" THEN m
  ELSE [m EXCEPT !.a = AddTransition(m.a, source, dest, min, max).a,
                 !.st = AddTransition(m.a, source, dest, min, max).st]

\* The loop over min of the general case, from Go index i on.
RECURSIVE minLoop(_, _, _, _, _, _, _)
minLoop(m, min, minInclusive, max, maxInclusive, sinkState, i) ==
  LET minLabel == min[i + 1]
      maxLabel == IF Len(max) # 0 /\ m.equalPrefix /\ i < Len(max)
                  THEN max[i + 1] ELSE -1
      toSink == minInclusive /\ i = Len(min) - 1
                /\ (m.equalPrefix = FALSE \/ minLabel # maxLabel)
      nextState == IF toSink THEN sinkState ELSE CreateStateId(m.a)
      forked(x) ==
        IF x.st = "ok" /\ (maxInclusive \/ i < Len(max) - 1)
        THEN intervalAdd(
               [x EXCEPT !.a = IF i < Len(max) - 1
                               THEN SetAccept(CreateState(x.a), CreateStateId(x.a), TRUE)
                               ELSE CreateState(x.a),
                         !.firstMaxState = CreateStateId(x.a)],
               m.lastState, CreateStateId(x.a), maxLabel, maxLabel)
        ELSE x
      between(x) ==
        IF maxLabel > minLabel + 1
        THEN intervalAdd(x, m.lastState, sinkState, minLabel + 1, maxLabel - 1)
        ELSE x
      above(x) ==
        IF minLabel < 255
        THEN intervalAdd(x, m.lastState, sinkState, minLabel + 1, 255)
        ELSE x
      body(created) ==
        IF m.equalPrefix
        THEN IF minLabel = maxLabel
             THEN intervalAdd(created, m.lastState, nextState, minLabel, minLabel)
             ELSE IF Len(max) = 0
             THEN intervalAdd(
                    intervalAdd([created EXCEPT !.equalPrefix = FALSE,
                                                !.sharedPrefixLength = 0],
                                m.lastState, sinkState, minLabel + 1, 255),
                    m.lastState, nextState, minLabel, minLabel)
             ELSE [forked(between(intervalAdd(created, m.lastState, nextState,
                                              minLabel, minLabel)))
                     EXCEPT !.equalPrefix = FALSE, !.sharedPrefixLength = i]
        ELSE above(intervalAdd(created, m.lastState, nextState, minLabel, minLabel))
  IN IF m.st # "ok" \/ i >= Len(min) THEN m
     ELSE minLoop([body(IF toSink THEN m ELSE [m EXCEPT !.a = CreateState(m.a)])
                     EXCEPT !.lastState = nextState], min, minInclusive, max,
                  maxInclusive, sinkState, i + 1)

\* The loop over max of the general case, from Go index i on.
RECURSIVE maxLoop(_, _, _, _, _)
maxLoop(m, max, maxInclusive, sinkState, i) ==
  LET maxLabel == max[i + 1]
      below(x) == IF maxLabel > 0
                  THEN intervalAdd(x, x.lastState, sinkState, 0, maxLabel - 1)
                  ELSE x
      onward(x) ==
        IF x.st = "ok" /\ (maxInclusive \/ i < Len(max) - 1)
        THEN [intervalAdd(
                [x EXCEPT !.a = IF i < Len(max) - 1
                                THEN SetAccept(CreateState(x.a), CreateStateId(x.a), TRUE)
                                ELSE CreateState(x.a)],
                x.lastState, CreateStateId(x.a), maxLabel, maxLabel)
                EXCEPT !.lastState = CreateStateId(x.a)]
        ELSE x
  IN IF m.st # "ok" \/ i >= Len(max) THEN m
     ELSE maxLoop(onward(below(m)), max, maxInclusive, sinkState, i + 1)

\* MakeBinaryInterval returns [a, st]: st is "ok", "err" or "panic", and a is
\* the automaton when st is "ok".  Byte strings are sequences over 0..255,
\* nil being the empty sequence.
MakeBinaryInterval(min, minInclusive, max, maxInclusive) ==
  LET result(m) == [a |-> m.a, st |-> m.st]
      hasPrefix == Len(max) >= Len(min) /\ SubSeq(max, 1, Len(min)) = min
      cmp == IF Len(max) # 0 THEN bytesCompare(min, max, 1) ELSE -1
      minIncl == IF Len(min) = 0 THEN TRUE ELSE minInclusive
      maxLength == IF maxInclusive = FALSE THEN Len(max) - 1 ELSE Len(max)
      accepted(m, yes) ==
        IF yes /\ m.st = "ok" THEN [m EXCEPT !.a = SetAccept(m.a, m.lastState, TRUE)]
        ELSE m
      finished(m) == IF m.st = "ok" THEN [m EXCEPT !.a = FinishState(m.a)] ELSE m
      finite(a1, lastState) ==
        finished(finiteZeros(
          accepted(finiteMin([a |-> a1, st |-> "ok", lastState |-> lastState], min, 0),
                   minIncl),
          maxLength, Len(min)))
      anySuffix(m, startState, sinkState) ==
        IF m.st = "ok" /\ m.equalPrefix = FALSE /\ m.lastState # sinkState
           /\ m.lastState # startState
        THEN intervalAdd(m, m.lastState, sinkState, 0, 255)
        ELSE m
      maxStart(m) ==
        IF m.firstMaxState = -1 THEN [m EXCEPT !.sharedPrefixLength = Len(min)]
        ELSE [m EXCEPT !.lastState = m.firstMaxState,
                       !.sharedPrefixLength = m.sharedPrefixLength + 1]
      doMax(m, sinkState) ==
        IF m.st = "ok" /\ Len(max) # 0
        THEN accepted(maxLoop(maxStart(m), max, maxInclusive, sinkState,
                              maxStart(m).sharedPrefixLength),
                      maxInclusive)
        ELSE m
      general(a2, startState, sinkState) ==
        finished(doMax(
          accepted(anySuffix(
                     minLoop(intervalAdd(
                               [a |-> SetAccept(a2, sinkState, TRUE), st |-> "ok",
                                equalPrefix |-> TRUE, lastState |-> startState,
                                firstMaxState |-> -1, sharedPrefixLength |-> 0],
                               sinkState, sinkState, 0, 255),
                             min, minIncl, max, maxInclusive, sinkState, 0),
                     startState, sinkState),
                   minIncl),
          sinkState))
  IN IF Len(min) = 0 /\ minInclusive = FALSE THEN [a |-> NewAutomaton, st |-> "err"]
     ELSE IF Len(max) = 0 /\ maxInclusive = FALSE THEN [a |-> NewAutomaton, st |-> "err"]
     ELSE IF Len(max) = 0 /\ Len(min) = 0
     THEN IF minIncl THEN MakeAnyBinary ELSE MakeNonEmptyBinary
     ELSE IF cmp = 0
     THEN IF minIncl = FALSE \/ maxInclusive = FALSE
          THEN [a |-> MakeEmpty, st |-> "ok"] ELSE MakeBinary(min)
     ELSE IF cmp > 0 THEN [a |-> MakeEmpty, st |-> "ok"]
     ELSE IF Len(max) # 0 /\ hasPrefix /\ suffixIsZeros(max, Len(min))
     THEN IF maxLength = Len(min)
          THEN IF minIncl = FALSE THEN [a |-> MakeEmpty, st |-> "ok"]
               ELSE MakeBinary(min)
          ELSE result(finite(CreateState(NewAutomaton), CreateStateId(NewAutomaton)))
     ELSE result(general(CreateState(CreateState(NewAutomaton)),
                         CreateStateId(NewAutomaton),
                         CreateStateId(CreateState(NewAutomaton))))

\* ------------------------------------------------- case-insensitive characters
\* unicode.IsLower and unicode.ToUpper on the code points toCaseInsensitiveChar
\* hands them, which are at most 128: the lower-case letters there are a .. z.
IsLower(codepoint) == codepoint >= 97 /\ codepoint <= 122

ToUpper(codepoint) == IF IsLower(codepoint) THEN codepoint - 32 ELSE codepoint

\* toCaseInsensitiveChar returns [a, st].  bothCases is the union of case1 and
\* the automaton of altCase, minimized.
toCaseInsensitiveChar(codepoint, determinizeWorkLimit) ==
  LET plain(r) == [a |-> r.a, st |-> r.st]
      minimized(r) ==
        IF r.st # "ok" THEN plain(r) ELSE plain(Minimize(r.a, determinizeWorkLimit))
      bothCases(case1, case2) ==
        IF case2.st # "ok" THEN plain(case2)
        ELSE minimized(union(<<case1.a, case2.a>>))
      withAlt(case1, altCase) ==
        IF altCase # codepoint THEN bothCases(case1, MakeChar(altCase))
        ELSE plain(case1)
  IN IF MakeChar(codepoint).st # "ok" THEN plain(MakeChar(codepoint))
     ELSE IF codepoint > 128 THEN plain(MakeChar(codepoint))
     ELSE withAlt(MakeChar(codepoint),
                  IF IsLower(codepoint) THEN ToUpper(codepoint) ELSE codepoint)

\* The REGEXP_CHAR case of toAutomatonInternal; caseInsensitive is
\* r.check(ASCII_CASE_INSENSITIVE).
charToAutomaton(e, caseInsensitive, determinizeWorkLimit) ==
  IF caseInsensitive THEN toCaseInsensitiveChar(e.c, determinizeWorkLimit)
  ELSE [a |-> MakeChar(e.c).a, st |-> MakeChar(e.c).st]

\* ------------------------------------------------------------------ isFinite
\* The end of isFinite with path.Clear(state) left out.
finiteDoneNoClear(state, r) ==
  [flag |-> TRUE, path |-> r.path, visited |-> r.visited \cup {state}, st |-> "ok"]

\* The end of isFinite, once no transition of state led to a loop: state
\* leaves the path and is visited.  r is [flag, path, visited, st], the two
\* bit sets being shared by all the calls.
finiteDone(state, r) ==
  [flag |-> TRUE, path |-> r.path \ {state}, visited |-> r.visited \cup {state},
   st |-> "ok"]

\* isFinite returns [flag, path, visited, st]; st is "panic" when state is not
\* a state of a.  finiteLoop is its loop from transition t on, finiteAfter
\* what follows the recursive call that returned sub.
RECURSIVE isFinite(_, _, _, _)
RECURSIVE finiteLoop(_, _, _, _)
finiteLoop(a, state, t, r) ==
  LET finiteAfter(sub) ==
        IF sub.st # "ok" \/ sub.flag = FALSE THEN [sub EXCEPT !.flag = FALSE]
        ELSE finiteLoop(a, state, t + 1, sub)
      onDest(dest) ==
        IF dest \in r.path THEN [r EXCEPT !.flag = FALSE]
        ELSE IF dest \in r.visited THEN finiteLoop(a, state, t + 1, r)
        ELSE finiteAfter(isFinite(a, dest, r.path, r.visited))
  IN IF t >= GetNumTransitionsWithState(a, state) THEN finiteDone(state, r)
     ELSE onDest(getTransition(a, state, t).Dest)

isFinite(a, state, path, visited) ==
  IF ~InRange(a.states, 2 * state + 1)
  THEN [flag |-> FALSE, path |-> path \cup {state}, visited |-> visited, st |-> "panic"]
  ELSE finiteLoop(a, state, 0, [flag |-> TRUE, path |-> path \cup {state},
                                visited |-> visited, st |-> "ok"])

\* IsFiniteAutomaton returns [flag, st].
IsFiniteAutomaton(a) ==
  IF GetNumStates(a) = 0 THEN [flag |-> TRUE, st |-> "ok"]
  ELSE [flag |-> isFinite(a, 0, {}, {}).flag, st |-> isFinite(a, 0, {}, {}).st]

\* ---------------------------------------------------- the build API, as actions
\* aut is the automaton under construction.  History variables: numAdds counts
\* the AddTransition calls that returned nil; frozen holds the states that
\* finishCurrentState has finalised; added holds <<source, label, dest>> for
\* every label of every transition added without error; grouped is TRUE until
\* AddTransition is called on a frozen source; lastCall describes the last call.
States == 0..(MaxStates - 1)

Labels == 0..MaxLabel

NoCall == [op |-> "none", onFrozen |-> FALSE, err |-> FALSE]

NoOut == [op |-> "none"]

\* A Go pointer is <<>> (nil) or <<object>>; an interface value carries its
\* dynamic type with the pointer, and the nil interface has no type.
NilPtr == <<>>

NilInterface == [type |-> "nil", ptr |-> <<>>]

InitBuild ==
  /\ aut = NewAutomaton
  /\ numAdds = 0
  /\ frozen = {}
  /\ added = {}
  /\ grouped = TRUE
  /\ lastCall = NoCall

\* sync.RWMutex: the goroutine holding the write lock (0 for none) and the
\* goroutines holding read locks.
Unlocked == [writer |-> 0, readers |-> {}]

Procs == 1..MaxProcs

Idle == [pc |-> "idle"]

\* No goroutine is inside a call of the map.
InitConc ==
  /\ mutex = Unlocked
  /\ procs = [t \in Procs |-> Idle]
  /\ raced = FALSE

\* No pattern has been handed to NewRegExp.
InitLib ==
  /\ pattern = <<>>
  /\ regexp = NoOut
  /\ fset = NilPtr
  /\ oset = NilInterface
  /\ sset = NewStateSet
  /\ hm = NewHashMap(1)
  /\ shadow = {}
  /\ InitConc
  /\ bld = NewBuilder

Init ==
  /\ InitBuild
  /\ InitLib
  /\ in1 = NewAutomaton
  /\ in2 = NewAutomaton
  /\ work = 0
  /\ out = NoOut

DoCreateState ==
  /\ GetNumStates(aut) < MaxStates
  /\ aut' = CreateState(aut)
  /\ lastCall' = [NoCall EXCEPT !.op = "CreateState"]
  /\ UNCHANGED <<numAdds, frozen, added, grouped>>
  /\ UNCHANGED <<opVars, libVars>>

\* The effect of an AddTransition call with result r; fin holds the state the
\* call finalised first, if any.
AddTransitionCalled(r, source, dest, min, max, fin) ==
  /\ aut' = r.a
  /\ numAdds' = IF r.st = "ok" THEN numAdds + 1 ELSE numAdds
  /\ frozen' = frozen \cup fin
  /\ added' = IF r.st = "ok"
              THEN added \cup {<<source, l, dest>> : l \in min..max}
              ELSE added
  /\ grouped' = (grouped /\ source \notin (frozen \cup fin))
  /\ lastCall' = [op |-> "AddTransition", onFrozen |-> source \in (frozen \cup fin),
                  err |-> r.st = "err"]

DoAddTransition ==
  \E source \in States, dest \in States, min \in Labels, max \in Labels :
    /\ source < GetNumStates(aut)
    /\ min <= max
    /\ numAdds < MaxTrans
    /\ AddTransitionCalled(AddTransition(aut, source, dest, min, max),
                           source, dest, min, max,
                           IF aut.curState # source /\ aut.curState # -1
                           THEN {aut.curState} ELSE {})
    /\ UNCHANGED <<opVars, libVars>>

DoFinishState ==
  /\ aut' = FinishState(aut)
  /\ frozen' = IF aut.curState # -1 THEN frozen \cup {aut.curState} ELSE frozen
  /\ lastCall' = [NoCall EXCEPT !.op = "FinishState"]
  /\ UNCHANGED <<numAdds, added, grouped>>
  /\ UNCHANGED <<opVars, libVars>>

Next == DoCreateState \/ DoAddTransition \/ DoFinishState

Spec == Init /\ [][Next]_vars

\* ------------------------------------------------ the operations, as actions
\* in1 and in2 are the operand automata, work the work limit passed, and
\* out the outcome of the operation applied: op names it, st is "ok", "err"
\* or "panic", a is the automaton returned, effortSpent determinize's counter.
\* The operands are what Builder.Finish returns for a builder with n states,
\* accept states acc and the transitions T.
RECURSIVE SeqOfSet(_)
SeqOfSet(T) ==
  IF T = {} THEN <<>>
  ELSE <<CHOOSE x \in T : TRUE>> \o SeqOfSet(T \ {CHOOSE x \in T : TRUE})

builderOf(n, acc, T) ==
  [nextState |-> n, isAccept |-> acc, transitions |-> SeqOfSet(T)]

Ranges == {r \in (0..MaxLabel) \X (0..MaxLabel) : r[1] <= r[2]}

TransChoices(n) ==
  {<<s, d, r[1], r[2]>> : s \in 0..(n - 1), d \in 0..(n - 1), r \in Ranges}

\* The sets in P, and each of them with one more element of X.
ExtendSets(P, X) == P \cup {A \cup {x} : A \in P, x \in X}

\* The subsets of X with at most k elements.
RECURSIVE SubsetsUpTo(_, _)
SubsetsUpTo(X, k) ==
  IF k = 0 THEN {{}} ELSE ExtendSets(SubsetsUpTo(X, k - 1), X)

Family(nmax, tmax) ==
  UNION {{BuilderFinish(builderOf(n, acc, T)).a :
            acc \in SUBSET (0..(n - 1)), T \in SubsetsUpTo(TransChoices(n), tmax)} :
         n \in 0..nmax}

\* The states reached from those in R along the transitions T.
RECURSIVE reachFrom(_, _)
reachFrom(R, T) ==
  IF {t[2] : t \in {u \in T : u[1] \in R}} \subseteq R THEN R
  ELSE reachFrom(R \cup {t[2] : t \in {u \in T : u[1] \in R}}, T)

\* The operands of determinize: every state reached from state 0, and the
\* last state accepting or none.
DetInputs(nmax) ==
  UNION {{BuilderFinish(builderOf(n, acc, T)).a :
            acc \in {{}, {n - 1}},
            T \in {X \in SubsetsUpTo(TransChoices(n), DetTrans) :
                     n = 0 \/ reachFrom({0}, X) = 0..(n - 1)}} :
         n \in 0..nmax}

\* The operands of the other operations, with at most tmax transitions.
OpInputs(tmax) == Family(MaxStates, tmax)

InitDet ==
  /\ InitBuild
  /\ InitLib
  /\ in1 \in DetInputs(DetStates)
  /\ in2 = NewAutomaton
  /\ work = 0
  /\ out = NoOut

InitOps ==
  /\ InitBuild
  /\ InitLib
  /\ in1 \in OpInputs(OpTrans)
  /\ in2 = NewAutomaton
  /\ work = 0
  /\ out = NoOut

\* The outcome r of the operation op.
Returned(op, r) ==
  /\ out' = [op |-> op, a |-> r.a, st |-> r.st, effortSpent |-> r.effortSpent]
  /\ UNCHANGED in1
  /\ UNCHANGED <<buildVars, libVars>>

\* determinize with the work limit of Test_concatenate, applied to a result.
determinized(r) ==
  IF r.st # "ok" THEN withEffort(r, 0) ELSE determinize(r.a, TestWorkLimit)

DoDeterminize ==
  \E wl \in 0..MaxWork :
    /\ out.op = "none"
    /\ work' = wl
    /\ Returned("determinize", determinize(in1, wl))
    /\ UNCHANGED in2

DoMinimize ==
  \E wl \in 0..MaxWork :
    /\ out.op = "none"
    /\ work' = wl
    /\ Returned("Minimize", Minimize(in1, wl))
    /\ UNCHANGED in2

DoComplement ==
  /\ out.op = "none"
  /\ work' = TestWorkLimit
  /\ Returned("complement", withEffort(complement(in1, TestWorkLimit), 0))
  /\ UNCHANGED in2

DoConcatenate ==
  \E b \in OpInputs(Op2Trans) :
    /\ out.op = "none"
    /\ in2' = b
    /\ work' = TestWorkLimit
    /\ Returned("concatenate", determinized(concatenate(<<in1, b>>)))

\* Test_concatenate: concatenate(string(m), any_string, string(n), any_string).
DoConcatenateExample ==
  /\ out.op = "none"
  /\ work' = TestWorkLimit
  /\ Returned("example",
              determinized(concatenate(<<MakeString(<<109>>).a, MakeAnyString.a,
                                         MakeString(<<110>>).a, MakeAnyString.a>>)))
  /\ UNCHANGED in2

DoUnion ==
  \E b \in OpInputs(Op2Trans) :
    /\ out.op = "none"
    /\ IsDeterministic(in1) /\ IsDeterministic(b)
    /\ in2' = b
    /\ work' = TestWorkLimit
    /\ Returned("union", determinized(union(<<in1, b>>)))

DoIntersection ==
  \E b \in OpInputs(Op2Trans) :
    /\ out.op = "none"
    /\ IsDeterministic(in1) /\ IsDeterministic(b)
    /\ GetNumStates(in1) >= 1 /\ GetNumStates(b) >= 1
    /\ in2' = b
    /\ work' = TestWorkLimit
    /\ Returned("intersection", withEffort(intersection(in1, b), 0))

NextDet == DoDeterminize

SpecDet == InitDet /\ [][NextDet]_vars

NextOps ==
  \/ DoMinimize
  \/ DoConcatenate
  \/ DoConcatenateExample
  \/ DoUnion
  \/ DoIntersection
  \/ DoComplement

SpecOps == InitOps /\ [][NextOps]_vars

\* ------------------------------- reverse, removeDeadStates, prefix, singleton
DoReverseTwice ==
  /\ out.op = "none"
  /\ out' = [op |-> "reverseTwice",
             r |-> (LET thenRemove(r) == IF r.st # "ok" THEN r ELSE removeDeadStates(r.a)
                        thenReverse(r) == IF r.st # "ok" THEN r ELSE reverse(r.a)
                    IN thenRemove(thenReverse(reverse(in1))))]
  /\ UNCHANGED <<in1, in2, work>>
  /\ UNCHANGED <<buildVars, libVars>>

DoRemoveDeadStates ==
  /\ out.op = "none"
  /\ out' = [op |-> "removeDeadStates", r |-> removeDeadStates(in1)]
  /\ UNCHANGED <<in1, in2, work>>
  /\ UNCHANGED <<buildVars, libVars>>

DoGetCommonPrefix ==
  /\ out.op = "none"
  /\ out' = [op |-> "getCommonPrefix", r |-> getCommonPrefix(in1)]
  /\ UNCHANGED <<in1, in2, work>>
  /\ UNCHANGED <<buildVars, libVars>>

\* The automata of Test_getCommonPrefix, as [a, st].
PrefixExample(ex) ==
  LET concatenated(r1, r2) ==
        IF r1.st # "ok" THEN r1
        ELSE IF r2.st # "ok" THEN r2
        ELSE concatenate(<<r1.a, r2.a>>)
  IN
  CASE ex = "empty" -> [a |-> MakeEmpty, st |-> "ok"]
    [] ex = "emptyString" -> [a |-> MakeEmptyString, st |-> "ok"]
    [] ex = "anyString" -> MakeAnyString
    [] ex = "charRange" -> MakeCharRange(97, 98)
    [] ex = "fooAny" ->
         concatenated(MakeString(<<102, 111, 111>>), MakeAnyString)

DoGetCommonPrefixExample ==
  \E ex \in {"empty", "emptyString", "anyString", "charRange", "fooAny"} :
    /\ out.op = "none"
    /\ out' = [op |-> "prefixExample", ex |-> ex,
               r |-> (LET prefixOf(r) ==
                            IF r.st # "ok" THEN [prefix |-> <<>>, st |-> r.st]
                            ELSE getCommonPrefix(r.a)
                      IN prefixOf(PrefixExample(ex)))]
    /\ UNCHANGED <<in1, in2, work>>
    /\ UNCHANGED <<buildVars, libVars>>

DoGetSingleton ==
  /\ out.op = "none"
  /\ IsDeterministic(in1)
  /\ out' = [op |-> "GetSingletonAutomaton", r |-> GetSingletonAutomaton(in1)]
  /\ UNCHANGED <<in1, in2, work>>
  /\ UNCHANGED <<buildVars, libVars>>

\* GetSingletonAutomaton of string("xyz") and of any_string.
DoGetSingletonExample ==
  \E ex \in {"xyz", "anyString"} :
    /\ out.op = "none"
    /\ out' = [op |-> "singletonExample", ex |-> ex,
               r |-> (LET singletonOf(r) ==
                            IF r.st # "ok"
                            THEN [ints |-> <<>>, singleton |-> FALSE, st |-> r.st]
                            ELSE GetSingletonAutomaton(r.a)
                      IN singletonOf(IF ex = "xyz" THEN MakeString(<<120, 121, 122>>)
                                     ELSE MakeAnyString))]
    /\ UNCHANGED <<in1, in2, work>>
    /\ UNCHANGED <<buildVars, libVars>>

NextLang ==
  \/ DoReverseTwice
  \/ DoRemoveDeadStates
  \/ DoGetCommonPrefix
  \/ DoGetCommonPrefixExample
  \/ DoGetSingleton
  \/ DoGetSingletonExample

SpecLang == InitOps /\ [][NextLang]_vars

\* ------------------------------------------------------- RegExp, as actions
\* pattern is the string handed to NewRegExp, regexp what NewRegExp returned;
\* toAutomaton puts its result in out and its work limit in work.
Alphabet == {97, 123, 125, 44, 49, 43}

Patterns == UNION {[1..n -> Alphabet] : n \in 0..MaxPattern}

InitRegExp ==
  /\ InitBuild
  /\ in1 = NewAutomaton
  /\ in2 = NewAutomaton
  /\ work = 0
  /\ out = NoOut
  /\ pattern \in Patterns
  /\ regexp = NoOut
  /\ fset = NilPtr
  /\ oset = NilInterface
  /\ sset = NewStateSet
  /\ hm = NewHashMap(1)
  /\ shadow = {}
  /\ InitConc
  /\ bld = NewBuilder

DoNewRegExp ==
  /\ regexp.op = "none"
  /\ regexp' = [op |-> "NewRegExp", r |-> NewRegExp(pattern)]
  /\ UNCHANGED <<pattern, opVars, buildVars, nonRegVars>>

DoToAutomaton ==
  \E wl \in 0..MaxLimit :
    /\ regexp.op = "NewRegExp"
    /\ regexp.r.st = "ok"
    /\ out.op = "none"
    /\ work' = wl
    /\ out' = [op |-> "toAutomaton", r |-> toAutomaton(regexp.r.e, wl)]
    /\ UNCHANGED <<pattern, regexp, in1, in2, buildVars, nonRegVars>>

\* testSerializeTooManyStatesToRepeat: NewRegExp("a{50001}"), toAutomaton(50000).
DoToAutomatonExample ==
  /\ regexp.op = "none"
  /\ pattern' = <<97, 123, 53, 48, 48, 48, 49, 125>>
  /\ regexp' = [op |-> "NewRegExp", r |-> NewRegExp(pattern')]
  /\ work' = 50000
  /\ out' = [op |-> "example",
             r |-> IF regexp'.r.st = "ok" THEN toAutomaton(regexp'.r.e, 50000)
                   ELSE [a |-> NewAutomaton, st |-> "err"]]
  /\ UNCHANGED <<in1, in2, buildVars, nonRegVars>>

NextRegExp == DoNewRegExp \/ DoToAutomaton \/ DoToAutomatonExample

SpecRegExp == InitRegExp /\ [][NextRegExp]_vars

\* --------------------------------------------- the integer sets, as actions
Elems == 0..MaxElem

\* The hash code the tests of Equals hand to NewFrozenIntSet.
TestHash == <<0, 123>>

FrozenSets ==
  {NewFrozenIntSet(v, h, q) : v \in {<<>>, <<1>>, <<1, 2>>},
                              h \in {<<0, 0>>, TestHash}, q \in 0..1}

Receivers == {NilPtr} \cup {<<f>> : f \in FrozenSets}

Operands ==
  {NilInterface, [type |-> "MockIntSet", ptr |-> <<>>],
   [type |-> "TestKey", ptr |-> <<>>],
   [type |-> "*FrozenIntSet", ptr |-> <<>>], [type |-> "*StateSet", ptr |-> <<>>],
   [type |-> "*StateSet", ptr |-> <<Incr(NewStateSet, 1)>>]}
    \cup {[type |-> "*FrozenIntSet", ptr |-> <<f>>] : f \in FrozenSets}

InitIntSet ==
  /\ InitBuild
  /\ in1 = NewAutomaton
  /\ in2 = NewAutomaton
  /\ work = 0
  /\ out = NoOut
  /\ pattern = <<>>
  /\ regexp = NoOut
  /\ fset \in Receivers
  /\ oset \in Operands
  /\ sset = NewStateSet
  /\ hm = NewHashMap(1)
  /\ shadow = {}
  /\ InitConc
  /\ bld = NewBuilder

DoIncr ==
  \E state \in Elems :
    /\ innerGet(sset, state) < MaxCount
    /\ sset' = Incr(sset, state)
    /\ out' = [op |-> "Incr"]
    /\ UNCHANGED <<fset, oset, nonSetVars>>

DoDecr ==
  \E state \in Elems :
    /\ sset' = Decr(sset, state)
    /\ out' = [op |-> "Decr"]
    /\ UNCHANGED <<fset, oset, nonSetVars>>

DoHash ==
  /\ sset' = Hashed(sset)
  /\ out' = [op |-> "Hash", h |-> sset'.hashCode]
  /\ UNCHANGED <<fset, oset, nonSetVars>>

\* p := statesSet.Freeze(q), kept as the receiver or as the argument of a
\* later Equals.
DoFreeze ==
  \E state \in 0..1, receiver \in BOOLEAN :
    /\ fset' = IF receiver THEN <<Freeze(sset, state)>> ELSE fset
    /\ oset' = IF receiver THEN oset
               ELSE [type |-> "*FrozenIntSet", ptr |-> <<Freeze(sset, state)>>]
    /\ out' = [op |-> "Freeze", set |-> Freeze(sset, state)]
    /\ UNCHANGED <<sset, nonSetVars>>

DoEquals ==
  /\ out' = [op |-> "Equals", r |-> FrozenIntSetEquals(fset, oset)]
  /\ oset' = IF out'.r = "panic" THEN oset ELSE afterHash(oset)
  /\ UNCHANGED <<fset, sset, nonSetVars>>

NextIntSet == DoIncr \/ DoDecr \/ DoHash \/ DoFreeze \/ DoEquals

SpecIntSet == InitIntSet /\ [][NextIntSet]_vars

\* ------------------------------------------------------ HashMap, as actions
\* Keys as in TestHashCollision: {1, "a"} and {0, "bb"} have the same hash.
TestKeys ==
  {[part1 |-> p, part2 |-> s] : p \in 0..MaxKeyPart, s \in {<<97>>, <<98, 98>>}}

\* Two values tell the latest Set of a key from an earlier one.
MapValues == {1, 2}

InitMap ==
  /\ InitBuild
  /\ in1 = NewAutomaton
  /\ in2 = NewAutomaton
  /\ work = 0
  /\ out = NoOut
  /\ pattern = <<>>
  /\ regexp = NoOut
  /\ fset = NilPtr
  /\ oset = NilInterface
  /\ sset = NewStateSet
  /\ \E capacity \in 1..MaxCapacity : hm = NewHashMap(capacity)
  /\ shadow = {}
  /\ InitConc
  /\ bld = NewBuilder

\* shadow is the content the calls made so far ask for: the latest value
\* set for each key that was not deleted afterwards.
DoMapSet ==
  \E key \in TestKeys, value \in MapValues :
    /\ hm' = HashMapSet(hm, key, value)
    /\ shadow' = {e \in shadow : e.key # key} \cup {[key |-> key, value |-> value]}
    /\ out' = [op |-> "Set", key |-> key]
    /\ UNCHANGED nonMapVars

DoMapGet ==
  \E key \in TestKeys :
    /\ out' = [op |-> "Get", key |-> key, got |-> HashMapGet(hm, key)]
    /\ UNCHANGED <<hm, shadow, nonMapVars>>

DoMapDelete ==
  \E key \in TestKeys :
    /\ hm' = HashMapDelete(hm, key)
    /\ shadow' = {e \in shadow : e.key # key}
    /\ out' = [op |-> "Delete", key |-> key, removed |-> hm'.size < hm.size]
    /\ UNCHANGED nonMapVars

DoMapSize ==
  /\ out' = [op |-> "Size", n |-> HashMapSize(hm)]
  /\ UNCHANGED <<hm, shadow, nonMapVars>>

NextMap == DoMapSet \/ DoMapGet \/ DoMapDelete \/ DoMapSize

SpecMap == InitMap /\ [][NextMap]_vars

\* ------------------------------------------- concurrent calls of a HashMap
\* The two colliding keys of TestHashCollision.
ConcKeys == {k \in TestKeys : TestKeyHash(k) = 2}

Writes == {"Set", "Delete"}

InitConcMap ==
  /\ InitBuild
  /\ in1 = NewAutomaton
  /\ in2 = NewAutomaton
  /\ work = 0
  /\ out = NoOut
  /\ pattern = <<>>
  /\ regexp = NoOut
  /\ fset = NilPtr
  /\ oset = NilInterface
  /\ sset = NewStateSet
  /\ \E capacity \in 1..MaxCapacity : hm = NewHashMap(capacity)
  /\ shadow = {}
  /\ InitConc
  /\ bld = NewBuilder

\* m.mutex.Lock() at the head of Set and Delete: no reader, no writer.
Lock(t) ==
  \E op \in Writes, key \in ConcKeys, value \in MapValues :
    /\ procs[t].pc = "idle"
    /\ mutex = Unlocked
    /\ op = "Delete" => value = 1
    /\ mutex' = [mutex EXCEPT !.writer = t]
    /\ procs' = [procs EXCEPT ![t] = [pc |-> "locked", op |-> op, key |-> key,
                                      value |-> value]]
    /\ UNCHANGED <<hm, shadow, raced, out, nonConcVars>>

\* The map a writer inside its critical section is about to leave behind.
written(m, call) ==
  IF call.op = "Set" THEN HashMapSet(m, call.key, call.value)
  ELSE HashMapDelete(m, call.key)

\* The buckets array a running iterator ranges over: the array of the map,
\* or the array the map had before a resize replaced it.
frozenBy(p, m, call) ==
  IF p.pc = "iter" /\ p.live /\ Len(written(m, call).buckets) # Len(m.buckets)
  THEN [p EXCEPT !.live = FALSE,
                 !.arr = stored(m, call.key, call.value).buckets]
  ELSE p

\* The body of Set or Delete and the deferred Unlock.
Unlock(t) ==
  /\ procs[t].pc = "locked"
  /\ hm' = written(hm, procs[t])
  /\ shadow' = {e \in shadow : e.key # procs[t].key}
                 \cup (IF procs[t].op = "Set"
                       THEN {[key |-> procs[t].key, value |-> procs[t].value]}
                       ELSE {})
  /\ mutex' = [mutex EXCEPT !.writer = 0]
  /\ procs' = [u \in Procs |-> IF u = t THEN Idle
                               ELSE frozenBy(procs[u], hm, procs[t])]
  /\ out' = [op |-> procs[t].op, key |-> procs[t].key, by |-> t]
  /\ UNCHANGED <<raced, nonConcVars>>

\* m.mutex.RLock() at the head of Get and Size: no writer.
RLock(t) ==
  \E op \in {"Get", "Size"}, key \in ConcKeys :
    /\ procs[t].pc = "idle"
    /\ mutex.writer = 0
    /\ mutex' = [mutex EXCEPT !.readers = @ \cup {t}]
    /\ procs' = [procs EXCEPT ![t] = [pc |-> "rlocked", op |-> op, key |-> key]]
    /\ UNCHANGED <<hm, shadow, raced, out, nonConcVars>>

\* The body of Get or Size and the deferred RUnlock.
RUnlock(t) ==
  /\ procs[t].pc = "rlocked"
  /\ mutex' = [mutex EXCEPT !.readers = @ \ {t}]
  /\ procs' = [procs EXCEPT ![t] = Idle]
  /\ out' = IF procs[t].op = "Get"
            THEN [op |-> "Get", key |-> procs[t].key, by |-> t,
                  got |-> HashMapGet(hm, procs[t].key)]
            ELSE [op |-> "Size", by |-> t, n |-> HashMapSize(hm)]
  /\ UNCHANGED <<hm, shadow, raced, nonConcVars>>

\* A writer inside its critical section replaces the buckets array.
resizing ==
  \E u \in Procs : /\ procs[u].pc = "locked"
                   /\ Len(written(hm, procs[u]).buckets) # Len(hm.buckets)

\* The first resumption of the function Iterator returns: range m.buckets
\* takes the buckets array of the map; no lock is taken. The read races
\* with a resize that assigns m.buckets.
IterStart(t) ==
  /\ procs[t].pc = "idle"
  /\ procs' = [procs EXCEPT ![t] = [pc |-> "iter", b |-> 0, live |-> TRUE,
                                    arr |-> <<>>]]
  /\ raced' = (raced \/ resizing)
  /\ out' = [op |-> "Iterator", by |-> t]
  /\ UNCHANGED <<hm, shadow, mutex, nonConcVars>>

\* What an unlocked read of bucket b can see: the chain as it is, and, while
\* a writer is inside its critical section, the chain as that writer leaves
\* it in the same array.
chainsSeen(p) ==
  IF ~p.live THEN {p.arr[p.b + 1]}
  ELSE {hm.buckets[p.b + 1]}
         \cup {IF procs[u].op = "Set"
               THEN stored(hm, procs[u].key, procs[u].value).buckets[p.b + 1]
               ELSE HashMapDelete(hm, procs[u].key).buckets[p.b + 1] :
               u \in {v \in Procs : procs[v].pc = "locked"}}

\* One round of the outer loop of the iterator: the chain of bucket b is
\* read and its entries are yielded; the caller may stop the iteration.
\* The read races with a writer that is changing this chain.
IterStep(t) ==
  \E stop \in BOOLEAN :
    /\ procs[t].pc = "iter"
    /\ \E chain \in chainsSeen(procs[t]) :
         out' = [op |-> "yield", by |-> t, chain |-> chain]
    /\ raced' = (raced \/ Cardinality(chainsSeen(procs[t])) > 1)
    /\ procs' = [procs EXCEPT ![t] =
                   IF stop \/ procs[t].b + 1 >= (IF procs[t].live
                                                 THEN Len(hm.buckets)
                                                 ELSE Len(procs[t].arr))
                   THEN Idle
                   ELSE [procs[t] EXCEPT !.b = @ + 1]]
    /\ UNCHANGED <<hm, shadow, mutex, nonConcVars>>

NextConc ==
  \E t \in Procs :
    Lock(t) \/ Unlock(t) \/ RLock(t) \/ RUnlock(t) \/ IterStart(t) \/ IterStep(t)

SpecConc == InitConcMap /\ [][NextConc]_vars

\* ------------------------------------------------------ Builder, as actions
\* The states and the labels of the builder's transitions.
BuilderStates == {0, 1}

BuilderLabels == {0, 1}

\* A builder after CreateState, CreateState, SetAccept(1, true).
TwoStateBuilder ==
  BuilderSetAccept(BuilderCreateState(BuilderCreateState(NewBuilder)), 1, TRUE)

InitBuilder ==
  /\ InitBuild
  /\ in1 = NewAutomaton
  /\ in2 = NewAutomaton
  /\ work = 0
  /\ out = NoOut
  /\ pattern = <<>>
  /\ regexp = NoOut
  /\ fset = NilPtr
  /\ oset = NilInterface
  /\ sset = NewStateSet
  /\ hm = NewHashMap(1)
  /\ shadow = {}
  /\ InitConc
  /\ bld = TwoStateBuilder

\* AddTransitionLabel(source, dest, label) is AddTransition(source, dest,
\* label, label); transitions are added in any order of their sources.
DoBuilderAddTransitionLabel ==
  \E source \in BuilderStates, dest \in BuilderStates, label \in BuilderLabels :
    /\ out.op # "Finish"
    /\ Len(bld.transitions) < MaxRows
    /\ bld' = BuilderAddTransition(bld, source, dest, label, label)
    /\ out' = [op |-> "AddTransitionLabel"]
    /\ UNCHANGED nonBldVars

\* Finish sorts the rows of the builder in place and returns the automaton.
DoBuilderFinish ==
  /\ out.op # "Finish"
  /\ bld' = BuilderSort(bld)
  /\ out' = [op |-> "Finish", r |-> BuilderFinish(bld), added |-> bld.transitions,
             errors |-> finishErrors([a |-> finishStates(bld), st |-> "ok"],
                                     BuilderSort(bld).transitions, 1)]
  /\ UNCHANGED nonBldVars

NextBuilder == DoBuilderAddTransitionLabel \/ DoBuilderFinish

SpecBuilder == InitBuilder /\ [][NextBuilder]_vars

\* ------------------------------------ AddEpsilon and Copy on a build, as actions
\* The <<source, label, dest>> triples the stored transitions of state s of a
\* denote, with states renumbered by shift.
triplesOf(a, s, source, shift) ==
  UNION {{<<source, l, TransitionsOf(a, s)[t].Dest + shift>> :
            l \in TransitionsOf(a, s)[t].Min..TransitionsOf(a, s)[t].Max} :
         t \in 1..GetNumTransitionsWithState(a, s)}

\* a.AddEpsilon(source, dest); a.FinishState() on the automaton a build has
\* reached, after SetAccept has made acc its accept states, as union and
\* reverse call them: for a dest whose transitions are closed (it is not the
\* current state) and a source that has not been finalised.  The run ends
\* with it; out keeps a as it was before the two calls.
epsilonFinished(a, source, dest) == FinishState(AddEpsilon(a, source, dest).a)

DoAddEpsilon ==
  \E source \in States, dest \in States :
    \E acc \in SUBSET {source, dest} :
      /\ out.op = "none"
      /\ source < GetNumStates(aut)
      /\ dest < GetNumStates(aut)
      /\ dest # aut.curState
      /\ source \notin frozen
      /\ aut' = epsilonFinished([aut EXCEPT !.isAccept = acc], source, dest)
      /\ out' = [op |-> "AddEpsilon", st |-> AddEpsilon(aut, source, dest).st,
                 before |-> [aut EXCEPT !.isAccept = acc],
                 source |-> source, dest |-> dest]
      /\ numAdds' = numAdds + GetNumTransitionsWithState(aut, dest)
      /\ frozen' = frozen \cup
                     ({AddEpsilon(aut, source, dest).a.curState, aut.curState} \ {-1})
      /\ added' = added \cup triplesOf(aut, dest, source, 0)
      /\ lastCall' = [NoCall EXCEPT !.op = "FinishState"]
      /\ UNCHANGED <<grouped, in1, in2, work, libVars>>

\* The automata handed to Copy as other: without states; one accepting state
\* looping on every label; two states, the second accepting and without
\* transitions, the first moving to both on label 0 (not deterministic).
CopyOperands ==
  {BuilderFinish(builderOf(x[1], x[2], x[3])).a :
     x \in {<<0, {}, {}>>,
            <<1, {0}, {<<0, 0, 0, MaxLabel>>}>>,
            <<2, {1}, {<<0, 0, 0, 0>>, <<0, 1, 0, 0>>}>>}}

\* a.Copy(other) on the automaton a build has reached; the run ends with it.
\* in2 is other, and out keeps a as it was before the call.
DoCopy ==
  \E other \in CopyOperands :
    /\ out.op = "none"
    /\ aut' = Copy(aut, other)
    /\ in2' = other
    /\ out' = [op |-> "Copy", st |-> "ok", before |-> aut]
    /\ frozen' = frozen \cup {GetNumStates(aut) + s : s \in
                                {q \in 0..(GetNumStates(other) - 1) :
                                   GetNumTransitionsWithState(other, q) > 0}}
    /\ added' = added \cup
         UNION {triplesOf(other, s, GetNumStates(aut) + s, GetNumStates(aut)) :
                  s \in 0..(GetNumStates(other) - 1)}
    /\ lastCall' = [NoCall EXCEPT !.op = "Copy"]
    /\ UNCHANGED <<numAdds, grouped, in1, work, libVars>>

NextEdit == (out.op = "none" /\ Next) \/ DoAddEpsilon \/ DoCopy

SpecEdit == Init /\ [][NextEdit]_vars

\* -------------------------------------------- MakeBinaryInterval, as an action
\* in1 holds the arguments of the call: byte strings of up to MaxBytes bytes
\* and the two inclusive flags.
IntervalBytes == {0, 16}

ByteTerms == UNION {[1..n -> IntervalBytes] : n \in 0..MaxBytes}

InitInterval ==
  /\ InitBuild
  /\ InitLib
  /\ in1 \in [min : ByteTerms, minInclusive : BOOLEAN,
              max : ByteTerms, maxInclusive : BOOLEAN]
  /\ in2 = NewAutomaton
  /\ work = 0
  /\ out = NoOut

DoMakeBinaryInterval ==
  /\ out' = [op |-> "MakeBinaryInterval",
             st |-> MakeBinaryInterval(in1.min, in1.minInclusive,
                                       in1.max, in1.maxInclusive).st,
             a |-> MakeBinaryInterval(in1.min, in1.minInclusive,
                                      in1.max, in1.maxInclusive).a]
  /\ UNCHANGED <<in1, in2, work>>
  /\ UNCHANGED <<buildVars, libVars>>

NextInterval == DoMakeBinaryInterval

SpecInterval == InitInterval /\ [][NextInterval]_vars

\* ------------------------------------------- a CHAR node compiled, as an action
\* regexp is a CHAR node for one of the code points up to MaxCodePoint; it is
\* compiled with the work limit of the tests, with and without the
\* ASCII_CASE_INSENSITIVE flag.
CodePoints == 0..MaxCodePoint

InitCase ==
  /\ InitBuild
  /\ in1 = NewAutomaton
  /\ in2 = NewAutomaton
  /\ work = TestWorkLimit
  /\ out = NoOut
  /\ pattern = <<>>
  /\ regexp \in {[op |-> "makeChar", r |-> [e |-> makeChar(c), st |-> "ok"]] :
                   c \in CodePoints}
  /\ fset = NilPtr
  /\ oset = NilInterface
  /\ sset = NewStateSet
  /\ hm = NewHashMap(1)
  /\ shadow = {}
  /\ InitConc
  /\ bld = NewBuilder

DoCharToAutomaton ==
  \E caseInsensitive \in BOOLEAN :
    /\ out' = [op |-> "toAutomaton", caseInsensitive |-> caseInsensitive,
               r |-> charToAutomaton(regexp.r.e, caseInsensitive, work)]
    /\ UNCHANGED <<pattern, regexp, in1, in2, work, buildVars, nonRegVars>>

NextCase == DoCharToAutomaton

SpecCase == InitCase /\ [][NextCase]_vars

\* ---------------------------------------------- IsFiniteAutomaton, as an action
\* The operands: what Builder.Finish returns for a builder with up to three
\* states, any accept states and up to MaxEdges transitions on label 0.
GraphSizes == {0, 1, 2, 3}

GraphInputs(emax) ==
  UNION {{BuilderFinish(builderOf(n, acc, T)).a :
            acc \in SUBSET (0..(n - 1)),
            T \in SubsetsUpTo({<<s, d, 0, 0>> : s \in 0..(n - 1), d \in 0..(n - 1)},
                              emax)} :
         n \in GraphSizes}

InitFinite ==
  /\ InitBuild
  /\ InitLib
  /\ in1 \in GraphInputs(MaxEdges)
  /\ in2 = NewAutomaton
  /\ work = 0
  /\ out = NoOut

DoIsFiniteAutomaton ==
  /\ out' = [op |-> "IsFiniteAutomaton", flag |-> IsFiniteAutomaton(in1).flag,
             st |-> IsFiniteAutomaton(in1).st]
  /\ UNCHANGED <<in1, in2, work>>
  /\ UNCHANGED <<buildVars, libVars>>

NextFinite == DoIsFiniteAutomaton

SpecFinite == InitFinite /\ [][NextFinite]_vars

\* ------------------------------------------ repeat and repeatRange, as actions
DoRepeat ==
  /\ out' = [op |-> "repeat", r |-> repeat(in1)]
  /\ UNCHANGED <<in1, in2, work>>
  /\ UNCHANGED <<buildVars, libVars>>

DoRepeatRange ==
  \E min \in 0..MaxRepeat, max \in 0..MaxRepeat :
    /\ out' = [op |-> "repeatRange", min |-> min, max |-> max,
               r |-> repeatRange(in1, min, max)]
    /\ UNCHANGED <<in1, in2, work>>
    /\ UNCHANGED <<buildVars, libVars>>

NextRepeat == DoRepeat \/ DoRepeatRange

SpecRepeat == InitOps /\ [][NextRepeat]_vars

\* ------------------------------------------------------------ Run, as an action
\* Run(a, s) for the operand itself, for what Minimize returns for it and for
\* MakeEmpty(); out keeps the automaton Run was called on.
RunSubjects(a) ==
  LET returned(r) == IF r.st = "ok" THEN {r.a} ELSE {}
  IN {a, MakeEmpty} \cup returned(Minimize(a, TestWorkLimit))

DoRun ==
  \E a \in RunSubjects(in1) :
    \E s \in UNION {[1..n -> Labels] : n \in 0..MaxStrLen} :
      /\ out.op = "none"
      /\ out' = [op |-> "Run", a |-> a, s |-> s, r |-> Run(a, s)]
      /\ UNCHANGED <<in1, in2, work>>
      /\ UNCHANGED <<buildVars, libVars>>

NextRun == DoRun

SpecRun == InitOps /\ [][NextRun]_vars

\* ------------------------------------- GetSingletonAutomaton, one round per step
\* One round of the loop of GetSingletonAutomaton on the walk w, which holds
\* the locals s, visited and ints and, once the function has returned, the
\* result.  Of ints the walk keeps the first MaxInts labels and, in odd,
\* whether the number of labels appended after them is odd.
singletonRound(a, w) ==
  LET returned(ints, singleton, st) ==
        [w EXCEPT !.pc = "returned", !.visited = w.visited \cup {w.s},
                  !.ints = ints, !.singleton = singleton, !.st = st]
      follow(t) ==
        IF t.Min = t.Max /\ t.Dest \in w.visited \cup {w.s}
        THEN [w EXCEPT !.visited = w.visited \cup {w.s}, !.s = t.Dest,
                       !.ints = IF Len(w.ints) < MaxInts THEN Append(w.ints, t.Min)
                                ELSE w.ints,
                       !.odd = IF Len(w.ints) < MaxInts THEN FALSE ELSE ~w.odd]
        ELSE returned(<<>>, FALSE, "ok")
  IN IF ~InRange(a.states, 2 * w.s + 1)
     THEN returned(<<>>, FALSE, "panic")
     ELSE IF ~IsAccept(a, w.s)
     THEN IF GetNumTransitionsWithState(a, w.s) = 1
          THEN follow(getTransition(a, w.s, 0))
          ELSE returned(<<>>, FALSE, "ok")
     ELSE IF GetNumTransitionsWithState(a, w.s) = 0
     THEN returned(w.ints, TRUE, "ok")
     ELSE returned(<<>>, FALSE, "ok")

\* The call: the determinism test, and the locals before the first round.
DoSingletonCall ==
  /\ out.op = "none"
  /\ out' = IF IsDeterministic(in1) = FALSE
            THEN [op |-> "GetSingletonAutomaton", pc |-> "returned", s |-> 0,
                  visited |-> {}, ints |-> <<>>, odd |-> FALSE,
                  singleton |-> FALSE, st |-> "err"]
            ELSE [op |-> "GetSingletonAutomaton", pc |-> "loop", s |-> 0,
                  visited |-> {}, ints |-> <<>>, odd |-> FALSE,
                  singleton |-> FALSE, st |-> "ok"]
  /\ UNCHANGED <<in1, in2, work>>
  /\ UNCHANGED <<buildVars, libVars>>

DoSingletonRound ==
  /\ out.op = "GetSingletonAutomaton"
  /\ out.pc = "loop"
  /\ out' = singletonRound(in1, out)
  /\ UNCHANGED <<in1, in2, work>>
  /\ UNCHANGED <<buildVars, libVars>>

NextWalk == DoSingletonCall \/ DoSingletonRound

\* A call that has started goes on running: the goroutine is not suspended
\* for ever before the call or between two rounds of the loop.
SpecWalk ==
  InitOps /\ [][NextWalk]_vars /\ WF_vars(DoSingletonCall) /\ WF_vars(DoSingletonRound)

\* ------------------------------------------------------- claims C1 .. C4
StateIds(a) == 0..(GetNumStates(a) - 1)

\* The <<label, dest>> pairs a state's stored transitions denote.
Denotes(a, s) ==
  UNION {{<<l, TransitionsOf(a, s)[t].Dest>> :
            l \in TransitionsOf(a, s)[t].Min..TransitionsOf(a, s)[t].Max} :
         t \in 1..GetNumTransitionsWithState(a, s)}

\* Two stored transitions of s have intersecting label ranges.
HasOverlap(a, s) ==
  \E i, j \in 1..GetNumTransitionsWithState(a, s) :
    /\ i # j
    /\ TransitionsOf(a, s)[i].Min <= TransitionsOf(a, s)[j].Max
    /\ TransitionsOf(a, s)[j].Min <= TransitionsOf(a, s)[i].Max

AllFinished == aut.curState = -1

\* C1: every AddTransition whose source is frozen returns an error, also when
\* it is one of several consecutive attempts on the same frozen source.
C1_FrozenSourceRejected ==
  (lastCall.op = "AddTransition" /\ lastCall.onFrozen) => lastCall.err

C3_DeterministicIffNoOverlap ==
  AllFinished =>
    (IsDeterministic(aut) <=> \A s \in StateIds(aut) : ~HasOverlap(aut, s))

\* C4: on a finished automaton whose IsDeterministic() is true, Step(state,
\* label) is the destination of the transition of state that contains label,
\* and is -1 exactly when no transition of state contains label.
C4_StepFindsContainingTransition ==
  (AllFinished /\ IsDeterministic(aut)) =>
    \A s \in StateIds(aut), l \in Labels :
      LET hits == {p \in Denotes(aut, s) : p[1] = l}
      IN /\ (Step(aut, s, l) = -1) <=> (hits = {})
         /\ hits # {} => <<l, Step(aut, s, l)>> \in hits

\* ------------------------------------------------------ claims C5 .. C10
\* The strings over the labels of the operands, up to MaxStrLen long.
Strings == UNION {[1..n -> Labels] : n \in 0..MaxStrLen}

\* The states a moves to from st on label, along its stored transitions.
destsOn(a, st, label) ==
  {TransitionsOf(a, st)[j].Dest :
     j \in {k \in 1..GetNumTransitionsWithState(a, st) :
              /\ TransitionsOf(a, st)[k].Min <= label
              /\ label <= TransitionsOf(a, st)[k].Max}}

RECURSIVE statesAfter(_, _, _, _)
statesAfter(a, S, s, i) ==
  IF i > Len(s) THEN S
  ELSE statesAfter(a, UNION {destsOn(a, st, s[i]) : st \in S}, s, i + 1)

\* a accepts s: s labels some path from state 0 to an accept state.
Accepts(a, s) ==
  /\ GetNumStates(a) > 0
  /\ statesAfter(a, {0}, s, 1) \cap a.isAccept # {}

\* The subsets of states the subset construction reaches from {0}.
RECURSIVE subsetsFrom(_, _, _)
subsetsFrom(a, seen, frontier) ==
  IF frontier = {} THEN seen
  ELSE subsetsFrom(a, seen \cup frontier,
         ({UNION {destsOn(a, st, l) : st \in S} : S \in frontier, l \in Labels}
            \ (seen \cup frontier)) \ {{}})

RECURSIVE sumSizes(_)
sumSizes(sets) ==
  IF sets = {} THEN 0
  ELSE Cardinality(CHOOSE S \in sets : TRUE)
         + sumSizes(sets \ {CHOOSE S \in sets : TRUE})

\* The sum of the sizes of all the subsets determinize would pop from its
\* worklist if it were never stopped.
PoppedTotal(a) == sumSizes(subsetsFrom(a, {}, {{0}}))

ShortCircuit(a) == IsDeterministic(a) \/ GetNumStates(a) <= 1

\* C5: when Minimize returns no error, the result is a fresh automaton without
\* states if the input has no states or its state 0 is non-accepting without
\* transitions; otherwise no state of the result has overlapping ranges and
\* Run on the result accepts exactly the strings the input accepts.
C5_MinimizeKeepsLanguage ==
  (out.op = "Minimize" /\ out.st = "ok") =>
    IF GetNumStates(in1) = 0
       \/ (~IsAccept(in1, 0) /\ GetNumTransitionsWithState(in1, 0) = 0)
    THEN out.a = NewAutomaton
    ELSE /\ \A q \in StateIds(out.a) : ~HasOverlap(out.a, q)
         /\ \A s \in Strings : (Run(out.a, s) = "accept") <=> Accepts(in1, s)

C7_ConcatenateSplits ==
  /\ out.op = "concatenate" =>
       /\ out.st = "ok"
       /\ \A s \in Strings :
            (Run(out.a, s) = "accept") <=>
              \E i \in 0..Len(s) : /\ Accepts(in1, SubSeq(s, 1, i))
                                   /\ Accepts(in2, SubSeq(s, i + 1, Len(s)))
  /\ out.op = "example" =>
       /\ out.st = "ok"
       /\ Run(out.a, <<109, 110>>) = "accept"
       /\ Run(out.a, <<109, 111, 110, 101>>) = "accept"
       /\ Run(out.a, <<109>>) = "reject"

\* C8: for deterministic a and b the determinized union(a, b) accepts s iff a
\* accepts s or b accepts s.
C8_UnionAcceptsEither ==
  out.op = "union" =>
    /\ out.st = "ok"
    /\ \A s \in Strings :
         (Run(out.a, s) = "accept") <=> (Accepts(in1, s) \/ Accepts(in2, s))

\* C9: for deterministic a and b, distinct and each with a state,
\* intersection(a, b) returns an automaton that accepts s iff both accept s.
C9_IntersectionAcceptsBoth ==
  out.op = "intersection" =>
    /\ out.st = "ok"
    /\ \A s \in Strings :
         (Run(out.a, s) = "accept") <=> (Accepts(in1, s) /\ Accepts(in2, s))

\* The strings up to two long over sample labels of [0, 0x10FFFF].
RuneStrings == UNION {[1..n -> {0, MaxLabel, MaxLabel + 1, MaxRune}] : n \in 0..2}

WellFormed(a) ==
  \A s \in StateIds(a) : \A p \in Denotes(a, s) : p[2] \in StateIds(a)

\* The states of a that a path leads to from the states in R.
RECURSIVE ReachableFrom(_, _)
ReachableFrom(a, R) ==
  IF UNION {{p[2] : p \in Denotes(a, s)} : s \in R} \subseteq R THEN R
  ELSE ReachableFrom(a, R \cup UNION {{p[2] : p \in Denotes(a, s)} : s \in R})

\* The states of a reachable from state 0 that can reach an accept state.
Live(a) ==
  {s \in ReachableFrom(a, IF GetNumStates(a) = 0 THEN {} ELSE {0}) :
     ReachableFrom(a, {s}) \cap a.isAccept # {}}

\* The dense number of the live state s: the count of live states below it.
DenseId(a, s) == Cardinality({q \in Live(a) : q < s})

\* C11: reverse(reverse(a)) followed by removeDeadStates returns an automaton
\* that accepts exactly the strings a accepts.
C11_ReverseTwiceKeepsLanguage ==
  out.op = "reverseTwice" =>
    /\ out.r.st = "ok"
    /\ WellFormed(out.r.a)
    /\ \A s \in Strings : Accepts(out.r.a, s) <=> Accepts(in1, s)

\* C12: removeDeadStates(a) has exactly the states of a that are reachable
\* from state 0 and can reach an accept state, renumbered densely, with their
\* accept bits and only the transitions between them; no state of it is dead.
C12_OnlyLiveStatesKept ==
  out.op = "removeDeadStates" =>
    /\ out.r.st = "ok"
    /\ GetNumStates(out.r.a) = Cardinality(Live(in1))
    /\ WellFormed(out.r.a)
    /\ \A s \in Live(in1) :
         /\ IsAccept(out.r.a, DenseId(in1, s)) <=> IsAccept(in1, s)
         /\ Denotes(out.r.a, DenseId(in1, s))
              = {<<p[1], DenseId(in1, p[2])>> :
                   p \in {q \in Denotes(in1, s) : q[2] \in Live(in1)}}
    /\ Live(out.r.a) = StateIds(out.r.a)

\* p is a prefix of s.
IsPrefix(p, s) == Len(p) <= Len(s) /\ \A i \in 1..Len(p) : p[i] = s[i]

\* The longest sequence that is a prefix of every string in L (the empty
\* sequence if L is empty).
LongestCommonPrefix(L) ==
  IF L = {} THEN <<>>
  ELSE CHOOSE p \in Strings :
         /\ \A s \in L : IsPrefix(p, s)
         /\ \A q \in Strings : (\A s \in L : IsPrefix(q, s)) => Len(q) <= Len(p)

\* C13: for an automaton in which every state reachable from state 0 can
\* reach an accept state, getCommonPrefix returns without error the longest
\* label sequence that is a prefix of every accepted string; it returns the
\* empty sequence for the empty-language, empty-string, any-string and
\* char-range automata and "foo" for concatenate(string("foo"), any_string).
C13_CommonPrefixIsLongest ==
  /\ (out.op = "getCommonPrefix"
        /\ ReachableFrom(in1, IF GetNumStates(in1) = 0 THEN {} ELSE {0}) = Live(in1))
       => /\ out.r.st = "ok"
          /\ out.r.prefix = LongestCommonPrefix({s \in Strings : Accepts(in1, s)})
  /\ out.op = "prefixExample"
       => /\ out.r.st = "ok"
          /\ out.r.prefix = IF out.ex = "fooAny" THEN <<102, 111, 111>> ELSE <<>>

\* C14: for a deterministic automaton, GetSingletonAutomaton returns the
\* label sequence w when the automaton accepts exactly the one string w
\* ([x, y, z] for string("xyz")), and not-a-singleton when it accepts no
\* string or more than one (any_string).
C14_SingletonFound ==
  /\ out.op = "GetSingletonAutomaton"
       => /\ out.r.st = "ok"
          /\ LET L == {s \in Strings : Accepts(in1, s)}
             IN IF Cardinality(L) = 1
                THEN out.r.singleton /\ out.r.ints \in L
                ELSE ~out.r.singleton
  /\ out.op = "singletonExample"
       => /\ out.r.st = "ok"
          /\ IF out.ex = "xyz"
             THEN out.r.singleton /\ out.r.ints = <<120, 121, 122>>
             ELSE ~out.r.singleton

\* ---------------------------------------------------------------- claim C15
\* The pattern is one rune followed by {n}: the expression e{n} with e a
\* single character.
IsCharRepeat(p) ==
  /\ Len(p) >= 4
  /\ p[2] = 123
  /\ p[Len(p)] = 125
  /\ \A i \in 3..(Len(p) - 1) : p[i] \in Digits

\* C15: compiling a pattern e{n} with work limit W returns an error whenever
\* (numStates(e) - 1) * n exceeds W; NewRegExp("a{50001}") followed by
\* toAutomaton(50000) returns an error.
C15_RepeatOverLimitFails ==
  /\ (out.op = "toAutomaton" /\ IsCharRepeat(pattern)
        /\ (GetNumStates(MakeChar(pattern[1]).a) - 1)
             * Atoi(SubSeq(pattern, 3, Len(pattern) - 1), 1, 0) > work)
       => out.r.st = "err"
  /\ out.op = "example" => out.r.st = "err"

\* ------------------------------------------------------ claims C16 .. C17
\* Both operands of the last Equals were frozen sets (no nil pointer).
BothFrozen ==
  /\ Len(fset) > 0
  /\ oset.type = "*FrozenIntSet"
  /\ Len(oset.ptr) > 0

\* count + the sum of mix32 over the elements of a sorted array.
HashOfValues(values) ==
  addHash(<<0, Len(values)>>, sumMix({values[i] : i \in 1..Len(values)}))

\* C16: FrozenIntSet.Equals(other) is true if and only if the element arrays
\* and the cached hashes of the two frozen sets are both equal; two frozen
\* sets with the same cached hash and different arrays compare unequal.
C16_EqualsIffArraysAndHashes ==
  (out.op = "Equals" /\ BothFrozen)
    => ((out.r = "true") <=> (/\ fset[1].values = oset.ptr[1].values
                               /\ fset[1].hashCode = oset.ptr[1].hashCode))

\* C17: whatever Incr, Decr and Hash calls came before, Freeze yields a
\* frozen set whose hash is count + the sum of mix32 over its elements.
C17_FreezeHashFromContents ==
  out.op = "Freeze" => out.set.hashCode = HashOfValues(out.set.values)

\* ------------------------------------------------------ claims C18 .. C19
\* What Get(key) has to answer for the content shadow.
Expected(key) ==
  IF \E e \in shadow : e.key = key
  THEN [value |-> (CHOOSE e \in shadow : e.key = key).value, ok |-> TRUE]
  ELSE [value |-> 0, ok |-> FALSE]

\* C18: after any sequence of Set and Delete calls, colliding keys and
\* resizes included, Get(k) returns the value of the latest Set(k, v) not
\* followed by Delete(k), reports absent for every other key, and Size() is
\* the number of present keys.
C18_MapHoldsLatestValues ==
  /\ \A key \in TestKeys : HashMapGet(hm, key) = Expected(key)
  /\ HashMapSize(hm) = Cardinality(shadow)
  /\ out.op = "Get" => out.got = Expected(out.key)
  /\ out.op = "Size" => out.n = Cardinality(shadow)

\* C18 witness: a key was deleted from a map that has grown and still holds
\* two keys in one chain.
C18_DeletedAfterResizeWithCollision ==
  /\ out.op = "Delete"
  /\ out.removed
  /\ Len(hm.buckets) > MaxCapacity
  /\ \E b \in 1..Len(hm.buckets) : Len(hm.buckets[b]) >= 2

\* No goroutine is inside a call.
Quiescent == \A t \in Procs : procs[t].pc = "idle"

\* C19: under any interleaving of concurrent Set, Get, Delete, Size and
\* Iterator calls no call reads the bucket chains while another call is
\* modifying them, and the content of the map is the content a sequential
\* order of the completed calls leaves.
C19_NoReadDuringWrite ==
  /\ ~raced
  /\ Quiescent => /\ \A key \in TestKeys : HashMapGet(hm, key) = Expected(key)
                  /\ HashMapSize(hm) = Cardinality(shadow)

\* ---------------------------------------------------------------- claim C20
\* The rows in the order p.
Reordered(rows, p) == [i \in 1..Len(rows) |-> rows[p[i]]]

\* C20: in whatever order the same transitions were passed to
\* Builder.AddTransition, Finish never hits the already-had-transitions error
\* and returns the same automaton.
C20_FinishIgnoresOrder ==
  out.op = "Finish" =>
    /\ out.errors = 0
    /\ \A p \in Permutations(1..Len(out.added)) :
         BuilderFinish([bld EXCEPT !.transitions = Reordered(out.added, p)]) = out.r

\* C20 witness: Finish returned an automaton for transitions that were added
\* with their sources out of order and a source coming back.
C20_FinishedInterleavedSources ==
  /\ out.op = "Finish"
  /\ out.r.st = "ok"
  /\ Len(out.added) >= 3
  /\ out.added[1][1] > out.added[2][1]
  /\ out.added[3][1] = out.added[1][1]

\* ----------------------------------------------------- claims C21 .. C30
\* C21: after AddEpsilon(source, dest) and FinishState, for a finished dest
\* and a source not frozen, the <<label, dest>> pairs leaving source are those
\* it had together with those leaving dest, source accepts iff it did or dest
\* does, and every other state keeps its pairs and its accept bit.
C21_EpsilonCopiesDest ==
  out.op = "AddEpsilon" =>
    /\ out.st = "ok"
    /\ GetNumStates(aut) = GetNumStates(out.before)
    /\ Denotes(aut, out.source) =
         Denotes(out.before, out.source) \cup Denotes(out.before, out.dest)
    /\ IsAccept(aut, out.source) <=>
         (IsAccept(out.before, out.source) \/ IsAccept(out.before, out.dest))
    /\ \A q \in StateIds(out.before) \ {out.source} :
         /\ Denotes(aut, q) = Denotes(out.before, q)
         /\ IsAccept(aut, q) <=> IsAccept(out.before, q)

\* The rows of state s lie inside a.transitions.
rowsInRange(a, s) ==
  \/ GetNumTransitionsWithState(a, s) = 0
  \/ /\ InRange(a.transitions, At(a.states, 2 * s))
     /\ InRange(a.transitions,
                At(a.states, 2 * s) + 3 * GetNumTransitionsWithState(a, s) - 1)

\* C22: after a.Copy(other) on any build a, state offset+s of a has other's
\* transitions of s with destinations shifted by offset (a's previous state
\* count) and other's accept bit, a's earlier states keep their transitions
\* and accept bits, and a is flagged non-deterministic if other was.
C22_CopyAppendsShifted ==
  out.op = "Copy" =>
    /\ GetNumStates(aut) = GetNumStates(out.before) + GetNumStates(in2)
    /\ \A s \in StateIds(in2) :
         /\ rowsInRange(aut, GetNumStates(out.before) + s)
         /\ TransitionsOf(aut, GetNumStates(out.before) + s) =
              [t \in 1..GetNumTransitionsWithState(in2, s) |->
                 [TransitionsOf(in2, s)[t] EXCEPT
                    !.Dest = @ + GetNumStates(out.before)]]
         /\ IsAccept(aut, GetNumStates(out.before) + s) <=> IsAccept(in2, s)
    /\ \A q \in StateIds(out.before) :
         /\ rowsInRange(aut, q)
         /\ TransitionsOf(aut, q) = TransitionsOf(out.before, q)
         /\ IsAccept(aut, q) <=> IsAccept(out.before, q)
    /\ ~in2.deterministic => ~aut.deterministic

\* The state the step finishes: the current state, when FinishState is called
\* or AddTransition has moved to another source; -1 when nothing is finished.
finishedByStep ==
  IF aut.curState # -1 /\ aut'.curState # aut.curState
     /\ lastCall'.op \in {"FinishState", "AddTransition"}
  THEN aut.curState ELSE -1

\* C28: finishing a state, by FinishState or by AddTransition moving to a new
\* source, leaves the stored (dest, min, max) triples and the transition count
\* of every other state as they were.
C28_FinishTouchesOwnRowsOnly ==
  [][finishedByStep # -1 =>
       \A q \in StateIds(aut) \ {finishedByStep, aut'.curState} :
         /\ GetNumTransitionsWithState(aut', q) = GetNumTransitionsWithState(aut, q)
         /\ TransitionsOf(aut', q) = TransitionsOf(aut, q)]_vars

\* The byte strings the result is probed with.
ProbeBytes == {0, 1, 15, 16, 17, 255}

ProbeTerms == UNION {[1..n -> ProbeBytes] : n \in 0..3}

\* C23: MakeBinaryInterval([0x00], true, [0x10, 0x00], true) returns an
\* automaton that accepts the one-byte strings 00 .. 0F and the string 10 00,
\* and no other byte string.
C23_IntervalExample ==
  (out.op = "MakeBinaryInterval"
   /\ in1 = [min |-> <<0>>, minInclusive |-> TRUE,
             max |-> <<16, 0>>, maxInclusive |-> TRUE]) =>
    /\ out.st = "ok"
    /\ \A s \in ProbeTerms :
         (Run(out.a, s) = "accept") <=>
           ((Len(s) = 1 /\ s[1] <= 15) \/ s = <<16, 0>>)

\* The other-case form of an ASCII letter, and c itself for any other code point.
OtherCase(c) ==
  IF c >= 65 /\ c <= 90 THEN c + 32 ELSE IF c >= 97 /\ c <= 122 THEN c - 32 ELSE c

\* The strings the compiled automaton is probed with: the empty string, every
\* one-character string, and the two-character strings over c and its other case.
CaseProbes(c) ==
  {<<>>} \cup {<<x>> : x \in CodePoints \cup {OtherCase(c)}}
         \cup {<<x, y>> : x \in {c, OtherCase(c)}, y \in {c, OtherCase(c)}}

\* C24: with ASCII_CASE_INSENSITIVE set, the automaton of a CHAR node for c
\* accepts exactly c and its other-case form when c is an ASCII letter, and
\* exactly c when c has no case pair.
C24_CaseInsensitiveChar ==
  (out.op = "toAutomaton" /\ out.caseInsensitive) =>
    /\ out.r.st = "ok"
    /\ \A s \in CaseProbes(regexp.r.e.c) :
         (Run(out.r.a, s) = "accept") <=>
           (s = <<regexp.r.e.c>> \/ s = <<OtherCase(regexp.r.e.c)>>)

\* Every state of a is reached from state 0 and reaches an accept state.
NoDeadStates(a) == WellFormed(a) /\ Live(a) = StateIds(a)

\* Some state reached from state 0 lies on a cycle.
CycleReachable(a) ==
  \E s \in ReachableFrom(a, IF GetNumStates(a) = 0 THEN {} ELSE {0}) :
    s \in ReachableFrom(a, {p[2] : p \in Denotes(a, s)})

\* a accepts a string of 0s as long as a pumping argument needs: at least as
\* long as a has states.
AcceptsLong(a) ==
  \E n \in GetNumStates(a)..(2 * GetNumStates(a)) :
    n >= 1 /\ Accepts(a, [i \in 1..n |-> 0])

\* C25: for an automaton without dead states IsFiniteAutomaton answers true iff
\* no cycle is reached from state 0, which is iff the language is finite; an
\* automaton without states is reported finite.
C25_FiniteIffNoCycle ==
  out.op = "IsFiniteAutomaton" =>
    /\ GetNumStates(in1) = 0 => (out.st = "ok" /\ out.flag)
    /\ NoDeadStates(in1) =>
         /\ out.st = "ok"
         /\ out.flag <=> ~CycleReachable(in1)
         /\ out.flag <=> ~AcceptsLong(in1)

\* C25 witness: a three-state automaton without dead states and without a
\* self-loop, whose cycle through several states is reported as not finite.
C25_CycleThroughSeveralStates ==
  /\ out.op = "IsFiniteAutomaton"
  /\ GetNumStates(in1) = 3
  /\ NoDeadStates(in1)
  /\ \A s \in StateIds(in1) : \A p \in Denotes(in1, s) : p[2] # s
  /\ out.flag = FALSE

\* s is a concatenation of k strings that a accepts.
RECURSIVE InPower(_, _, _)
InPower(a, s, k) ==
  IF k = 0 THEN Len(s) = 0
  ELSE \E n \in 0..Len(s) :
         /\ Accepts(a, SubSeq(s, 1, n))
         /\ InPower(a, SubSeq(s, n + 1, Len(s)), k - 1)

\* s is a concatenation of one or more strings that a accepts; parts that are
\* empty add nothing, so Len(s) parts or one part are enough.
InPlus(a, s) == \E k \in 1..(Len(s) + 1) : InPower(a, s, k)

\* C26: repeat(a) has an accepting state 0 and accepts the empty string and
\* the concatenations of one or more strings of a, and nothing else; checked
\* for the inputs with at least one state, the automata of the empty language
\* included (the automaton without states is returned as it is).
C26_RepeatIsStar ==
  (out.op = "repeat" /\ GetNumStates(in1) > 0) =>
    /\ out.r.st = "ok"
    /\ IsAccept(out.r.a, 0)
    /\ WellFormed(out.r.a)
    /\ \A s \in Strings : Accepts(out.r.a, s) <=> (Len(s) = 0 \/ InPlus(in1, s))

\* C27: for 0 <= min <= max, repeatRange(a, min, max) accepts exactly the
\* concatenations of k strings of a with min <= k <= max; for min > max it
\* accepts no string.
C27_RepeatRangeIsPowers ==
  out.op = "repeatRange" =>
    /\ out.r.st = "ok"
    /\ WellFormed(out.r.a)
    /\ \A s \in Strings :
         Accepts(out.r.a, s) <=> \E k \in out.min..out.max : InPower(in1, s, k)

\* C29: Run(a, s) answers false, without an index out of range, for every
\* string s, empty or not, when a has no states, as MakeEmpty() and the
\* result of Minimize for an input of the empty language have.
C29_RunOnNoStates ==
  (out.op = "Run" /\ GetNumStates(out.a) = 0) => out.r = "reject"

\* C30: GetSingletonAutomaton returns for every deterministic automaton,
\* those with single-label self-loops or cycles included.
C30_SingletonWalkReturns ==
  (out.op = "GetSingletonAutomaton") ~> (out.op = "GetSingletonAutomaton" /\ out.pc = "returned")

====
